---- MODULE Spec2Model ----
(***************************************************************************)
(* vite-plugin-react-devtools: the fiber walk (fiberToComponent /          *)
(* getComponentTree), the hook-chain decoder (extractHooks), the source    *)
(* resolver (getComponentSourceLocation / resolveComponentFile) and the    *)
(* WebSocket channel between the dev server and the injected client        *)
(* script.                                                                 *)
(*                                                                         *)
(* The repository holds two revisions of the walk and of the decoder: the  *)
(* library module src/src/react-detector.ts ("detector") and the copy      *)
(* inlined into the generated client script in src/unnamed/part_002        *)
(* ("client").  Both are modelled; the variable walker / hookImpl says     *)
(* which one runs.                                                         *)
(***************************************************************************)
EXTENDS Integers, Sequences, FiniteSets, TLC

(***************************************************************************)
(* Bounds of the model                                                     *)
(***************************************************************************)
\* raw fiber nodes of a host graph are 1..MaxNodes; 0 is the null link
MaxNodes == 3
\* frames the JavaScript engine's call stack holds before it raises RangeError
MaxStack == 5
\* raw hook nodes of a fiber's hook chain are 1..MaxHookNodes
MaxHookNodes == 3
\* browser pages that load the client script
NumClients == 1
\* messages in flight in one direction of one connection
MaxQueue == 2
\* events the environment causes in one run: host commits, tree requests on
\* the user's behalf (toggle, open, the 1 s refresh interval), lost connections
MaxEvents == 1
\* editors whose command exists on the machine that probes them
MaxInstalled == 3
\* inspectors that connect to the server on their own
NumPeers == 2
\* frames the inspectors send in one run
MaxFrames == 2

(***************************************************************************)
(* Program constants                                                       *)
(***************************************************************************)
\* part_002:1217  if (!fiber || depth > 20) return null
MaxDepth == 20
\* part_002:1276  while (hook && index < 20)
MaxHooks == 20
\* index.ts:760, part_002:1057
maxReconnectAttempts == 5

Nodes == 1..MaxNodes
Links == 0..MaxNodes
Null == 0

\* what a raw fiber's `type` is: a function/class component, a host element
\* (string type), an object whose $$typeof names one of the skipTypes, or a
\* fiber whose fields throw when they are read (host runtime mid-commit)
Kinds == {"component", "host", "marker", "throws"}
Walkers == {"detector", "client"}

VARIABLES
  \* ---- fiber walk ------------------------------------------------------
  walker,      \* which fiberToComponent runs
  size,        \* the raw graph has the nodes 1..size, node 1 is the root fiber
  child,       \* fiber.child   : Nodes -> Links
  sibling,     \* fiber.sibling : Nodes -> Links
  kind,        \* the shape of fiber.type : Nodes -> Kinds
  stack,       \* the active fiberToComponent calls (innermost last)
  out,         \* the ReactComponent objects created so far, in creation order
  components,  \* the array getComponentTree returns (indices into out)
  aborted,     \* "no", or why an exception reached getComponentTree's catch
  wstatus      \* "start", "walking", "done", "diverged"

walkVars == <<walker, size, child, sibling, kind, stack, out, components, aborted, wstatus>>

VARIABLES
  \* ---- hook decoding ---------------------------------------------------
  hookImpl,    \* which extractHooks runs
  memoizedState, \* fiber.memoizedState: the head of the hook chain, 0 if falsy
  hookNext,    \* hook.next : HookNodes -> 0..MaxHookNodes
  hookShape,   \* which of the properties queue and deps each raw hook node has
  hookNode,    \* the loop variable hookNode / hook
  hooks,       \* the Hook records pushed so far
  hookSeen,    \* the raw hook nodes the loop has visited
  hstatus      \* "start", "decoding", "done", "diverged"

hookVars == <<hookImpl, memoizedState, hookNext, hookShape, hookNode, hooks, hookSeen, hstatus>>

VARIABLES
  \* ---- source resolution -----------------------------------------------
  component,   \* the ReactComponent handed to the resolver
  fs,          \* the paths for which existsSync answers true
  projectRoot,
  srcDirs,
  location,    \* what getComponentSourceLocation returned
  resolved,    \* what resolveComponentFile returned: a path or null, and
               \* nothing else (held as a record with the one field file)
  probes,      \* the paths resolveComponentFile passed to existsSync, in order
  rdone        \* the resolver functions that have been applied

resolveVars == <<component, fs, projectRoot, srcDirs, location, resolved, probes, rdone>>

VARIABLES
  \* ---- the channel: dev server ------------------------------------------
  rev,            \* the revision of the plugin: "index" (src/src/index.ts)
                  \* or "part002" (src/unnamed/part_002)
  wss,            \* devToolsState.wss is set
  clients,        \* devToolsState.clients: the server-side sockets registered
  componentTree,  \* devToolsState.componentTree (0 is undefined)
  sstate,         \* server-side readyState of each connection
  toServer,       \* frames sent by the page, not yet handled by the server
  toClient,       \* frames sent by the server, not yet handled by the page
  order,          \* per page: the sockets of the COMPONENT_TREE messages in
                  \* flight to it, in the order the server generated them
  \* ---- the channel: the client script of each page -----------------------
  cur,            \* ws: the index of the page's latest WebSocket, 0 if none
  cstate,         \* readyState of each WebSocket of the page
  reconnectAttempts,
  retryTimer,     \* a setTimeout(connect, ...) is pending
  retryDelay,     \* the delay, in ms, onclose gave its last setTimeout
  devToolsUI,     \* initializeUI has run
  hookWraps,      \* wrappers setupReactIntegration has put on onCommitFiberRoot
  treeTimers,     \* pending setTimeout(requestComponentTree) (part_002)
  events,         \* events the environment has caused so far
  \* ---- what the page has observed ----------------------------------------
  received,       \* payload of the last COMPONENT_TREE frame (-1: none yet)
  applied,        \* the last COMPONENT_TREE the page applied to its UI
  owed,           \* the host committed while the page's connection was open
  errored,        \* the connections whose ws.on('error') handler has run
  retries         \* connect() calls made by the retry timer since the page's
                  \* last open connection

serverVars == <<rev, wss, clients, componentTree, sstate, toServer, toClient, order>>
clientVars == <<cur, cstate, reconnectAttempts, retryTimer, retryDelay, devToolsUI, hookWraps,
                treeTimers, events>>
ghostVars == <<received, applied, owed, errored, retries>>
chanVars == <<serverVars, clientVars, ghostVars>>

VARIABLES
  \* ---- launchEditor / handleOpenSource -----------------------------------
  call,        \* the call made: which entry point, and its arguments
  lfs,         \* the paths that exist in the file system
  launched,    \* what launchEditor (or the navigation handler) returned
  spawnCalls,  \* the spawn(command, args, options) calls made, in order
  logs,        \* what was written to the console, in order
  proc,        \* the editor's child process
  crashed,     \* an uncaught exception has terminated the host process
  built,       \* the argument list a profile's args function returned
  replies,     \* the messages sent back to the inspector that asked
  lstatus

launchVars == <<call, lfs, launched, spawnCalls, logs, proc, crashed, built, replies,
                lstatus>>

VARIABLES
  \* ---- detectAvailableEditors ---------------------------------------------
  outcome,     \* how the version probe of each editor's command ends
  probeIdx,    \* position, in Object.entries(SUPPORTED_EDITORS), of the loop
  inflight,    \* the editors whose probe process runs
  probed,      \* the editors whose probe has been started, in order
  available,   \* the keys pushed onto `available`
  dstatus

detectVars == <<outcome, probeIdx, inflight, probed, available, dstatus>>

VARIABLES
  \* ---- the plugin as the host (Vite) drives it ----------------------------
  command,     \* config.command: "serve" or "build"
  configMode,  \* config.mode
  enableInProduction,  \* options.enableInProduction
  isProduction,        \* set by configResolved
  lastHook,    \* the plugin hook the host called last
  server,      \* devToolsState.server is set (part_002 only)
  listening,   \* an http server made by setupWebSocketServer holds the port
  upgrades,    \* that server hands WebSocket upgrades to a live wss
  middleware,  \* configureServer has installed the client script's route
  html,        \* what transformIndexHtml returned last
  served,      \* how the last request for the client script was answered
  ended        \* buildEnd has run

hostVars == <<command, configMode, enableInProduction, isProduction, lastHook, server, listening,
              upgrades, middleware, html, served, ended>>

VARIABLES
  \* ---- the server's message handler ---------------------------------------
  frames,          \* frames the inspectors have sent so far
  handled,         \* calls of the 'message' handler so far
  pendingEditors,  \* connections whose handleGetAvailableEditors awaits
                   \* detectAvailableEditors, in the order of their requests
  slog             \* what the server wrote with console.error / console.warn

serveVars == <<frames, handled, pendingEditors, slog>>

VARIABLES
  \* ---- ids of one extraction -----------------------------------------------
  idImpl,      \* which fiberToComponent makes the ids
  idFibers,    \* type name, key and index of the fibers the walk materializes
  ids          \* the ids given so far, in the order of the fibers

idVars == <<idImpl, idFibers, ids>>

plugVars == <<hostVars, serveVars, idVars>>

toolVars == <<launchVars, detectVars, plugVars>>

vars == <<walkVars, hookVars, resolveVars, chanVars, toolVars>>

(***************************************************************************)
(* Raw graphs: a well-formed fiber tree in first-child / next-sibling      *)
(* form, plus at most one extra link that aliases a node or closes a cycle *)
(***************************************************************************)
ChildFns == {f \in [Nodes -> Links] : \A x \in Nodes : f[x] \in {Null, x + 1}}
SiblingFns == {f \in [Nodes -> Links] : \A x \in Nodes : f[x] = Null \/ f[x] > x}

\* nodes are numbered so that links of the tree lead to higher numbers; every
\* node but the root is the first child or the next sibling of exactly one node
IsTree(ch, sb, n) ==
  /\ \A x \in Nodes : x > n => ch[x] = Null /\ sb[x] = Null
  /\ \A x \in 1..n : ch[x] <= n /\ sb[x] <= n
  /\ sb[1] = Null
  /\ \A y \in 2..n :
       Cardinality({x \in 1..n : ch[x] = y} ) + Cardinality({x \in 1..n : sb[x] = y}) = 1

Trees == {t \in [size : 1..MaxNodes, ch : ChildFns, sb : SiblingFns] : IsTree(t.ch, t.sb, t.size)}

NoExtra == [node |-> 0, field |-> "none", to |-> 0]

ExtraLinks(n) ==
  {NoExtra} \cup [node : 1..n, field : {"child", "sibling"}, to : 1..n]

\* the nodes a link of x leads to
Succ(x) == {child[x], sibling[x]} \ {Null}

RECURSIVE ReachFrom(_, _)
ReachFrom(frontier, seen) ==
  IF frontier \subseteq seen THEN seen
  ELSE ReachFrom(UNION {Succ(x) : x \in frontier}, seen \cup frontier)

\* every node some chain of child/sibling links from x leads to (x excluded
\* unless it lies on a cycle)
Reach(x) == ReachFrom(Succ(x), {})

Acyclic == \A x \in 1..size : x \notin Reach(x)

\* the raw sibling chain that starts at x, up to its first repetition
RECURSIVE SiblingChain(_, _)
SiblingChain(x, seen) ==
  IF x = Null \/ x \in seen THEN <<>>
  ELSE <<x>> \o SiblingChain(sibling[x], seen \cup {x})

ChainIsCyclic(x) ==
  LET RECURSIVE Walk(_, _)
      Walk(y, seen) == IF y = Null THEN FALSE
                       ELSE IF y \in seen THEN TRUE
                       ELSE Walk(sibling[y], seen \cup {y})
  IN Walk(x, {})

(***************************************************************************)
(* fiberToComponent                                                        *)
(***************************************************************************)
RNull == [tag |-> "null", node |-> 0, depth |-> 0]
RThrow == [tag |-> "throw", node |-> 0, depth |-> 0]
RMat(n, d) == [tag |-> "mat", node |-> n, depth |-> d]

\* react-detector.ts:289  the $$typeof of fiber.type names a skipType
shouldSkipFiber(n) == kind[n] = "marker"

\* react-detector.ts:43-63  the part of fiberToComponent before the child loop:
\* null for a null or skipped fiber, else the fiber is materialized
DetectorEnter(n, d) ==
  IF n = Null THEN RNull
  ELSE IF kind[n] = "throws" THEN RThrow
  ELSE IF shouldSkipFiber(n) THEN RNull
  ELSE RMat(n, d)

\* part_002:1216-1254  the client script's copy: a depth bound, and host
\* elements below the root hand over to their first child only
RECURSIVE ClientEnter(_, _)
ClientEnter(n, d) ==
  IF n = Null \/ d > MaxDepth THEN RNull
  ELSE IF kind[n] = "throws" THEN RThrow
  ELSE IF kind[n] = "host" /\ d > 0
    THEN IF child[n] # Null THEN ClientEnter(child[n], d + 1) ELSE RNull
  ELSE RMat(n, d)

Enter(n, d) == IF walker = "detector" THEN DetectorEnter(n, d) ELSE ClientEnter(n, d)

Frame(n, d, i) == [node |-> n, depth |-> d, idx |-> i, cursor |-> child[n], seen |-> {}]

\* the ReactComponent created for raw node n (react-detector.ts:53-63,
\* part_002:1246-1254).  parent is the index of the component whose child loop
\* made the call (0 for the root call); via is the entry of that loop's
\* sibling chain the call was made for; children holds indices into out
Component(n, d, p, v) ==
  [raw |-> n, depth |-> d, parent |-> p, via |-> v, children |-> <<>>]

\* react-detector.ts:70  childComponent.parent = component (the client
\* script's copy sets no parent field)
HasParentField == walker = "detector"

\* getComponentTree's catch (detector :112) / per-root catch (client :1177):
\* the whole walk of this root is dropped
Abort(why) ==
  /\ stack' = <<>>
  /\ out' = <<>>
  /\ components' = <<>>
  /\ aborted' = why
  /\ wstatus' = "done"

\* react-detector.ts:82-111, part_002:1168-1176: the first call, on the root
GetComponentTree ==
  /\ wstatus = "start"
  /\ LET r == Enter(1, 0) IN
       CASE r.tag = "throw" -> Abort("throw")
         [] r.tag = "null" ->
              /\ wstatus' = "done"
              /\ UNCHANGED <<stack, out, components, aborted>>
         [] OTHER ->
              /\ stack' = <<Frame(r.node, r.depth, 1)>>
              /\ out' = <<Component(r.node, r.depth, 0, 1)>>
              /\ wstatus' = "walking"
              /\ UNCHANGED <<components, aborted>>
  /\ UNCHANGED <<walker, size, child, sibling, kind>>
  /\ UNCHANGED <<hookVars, resolveVars, chanVars, toolVars>>

Top == stack[Len(stack)]

\* one iteration of `while (child)`: the recursive call on the cursor, then
\* child = child.sibling
VisitChild ==
  /\ wstatus = "walking"
  /\ Top.cursor # Null
  /\ Top.cursor \notin Top.seen
  /\ LET c == Top.cursor
         r == Enter(c, Top.depth + 1)
         moved == [Top EXCEPT !.cursor = sibling[c], !.seen = @ \cup {c}]
     IN CASE r.tag = "throw" -> Abort("throw")
          [] r.tag = "null" ->
               /\ stack' = [stack EXCEPT ![Len(stack)] = moved]
               /\ UNCHANGED <<out, components, aborted, wstatus>>
          [] OTHER ->
               IF walker = "detector" /\ Len(stack) >= MaxStack
                 THEN Abort("overflow")  \* RangeError: maximum call stack size exceeded
                 ELSE /\ stack' = Append([stack EXCEPT ![Len(stack)] = moved],
                                         Frame(r.node, r.depth, Len(out) + 1))
                      /\ out' = Append(out, Component(r.node, r.depth, Top.idx, c))
                      /\ UNCHANGED <<components, aborted, wstatus>>
  /\ UNCHANGED <<walker, size, child, sibling, kind>>
  /\ UNCHANGED <<hookVars, resolveVars, chanVars, toolVars>>

\* a walk that puts each child in front of its elder siblings
PushChildFront(kids, i) == <<i>> \o kids

\* component.children.push(childComponent) (react-detector.ts:71)
PushChild(kids, i) == Append(kids, i)

\* `return component`: the caller pushes it onto its children; the root
\* call's component is pushed onto getComponentTree's array
ReturnComponent ==
  /\ wstatus = "walking"
  /\ Top.cursor = Null
  /\ stack' = SubSeq(stack, 1, Len(stack) - 1)
  /\ IF Len(stack) = 1
       THEN /\ components' = PushChild(components, Top.idx)
            /\ wstatus' = "done"
            /\ out' = out
       ELSE /\ out' = [out EXCEPT ![stack[Len(stack) - 1].idx].children = PushChild(@, Top.idx)]
            /\ UNCHANGED <<components, wstatus>>
  /\ UNCHANGED aborted
  /\ UNCHANGED <<walker, size, child, sibling, kind>>
  /\ UNCHANGED <<hookVars, resolveVars, chanVars, toolVars>>

\* the child loop comes back to a fiber it has already visited in this very
\* loop: every call it makes returned normally before and returns normally
\* again, so the loop never ends
LoopForever ==
  /\ wstatus = "walking"
  /\ Top.cursor # Null
  /\ Top.cursor \in Top.seen
  /\ wstatus' = "diverged"
  /\ UNCHANGED <<stack, out, components, aborted>>
  /\ UNCHANGED <<walker, size, child, sibling, kind>>
  /\ UNCHANGED <<hookVars, resolveVars, chanVars, toolVars>>

WalkIdle ==
  /\ walker = "detector"
  /\ size = 1
  /\ child = [n \in Nodes |-> Null]
  /\ sibling = [n \in Nodes |-> Null]
  /\ kind = [n \in Nodes |-> "component"]
  /\ stack = <<>>
  /\ out = <<>>
  /\ components = <<>>
  /\ aborted = "no"
  /\ wstatus = "idle"

InitWalkInputs ==
  /\ walker \in Walkers
  /\ \E t \in Trees :
       /\ size = t.size
       /\ \E x \in ExtraLinks(t.size) :
            /\ x.field = "child" => t.ch[x.node] = Null
            /\ x.field = "sibling" => t.sb[x.node] = Null
            /\ child = IF x.field = "child" THEN [t.ch EXCEPT ![x.node] = x.to] ELSE t.ch
            /\ sibling = IF x.field = "sibling" THEN [t.sb EXCEPT ![x.node] = x.to] ELSE t.sb
  /\ \E k \in [1..size -> Kinds] :
       kind = [n \in Nodes |-> IF n <= size THEN k[n] ELSE "component"]
  /\ stack = <<>>
  /\ out = <<>>
  /\ components = <<>>
  /\ aborted = "no"
  /\ wstatus = "start"

(***************************************************************************)
(* extractHooks                                                            *)
(***************************************************************************)
HookNodes == 1..MaxHookNodes
HookImpls == {"detector", "client"}

HookShapes == [queue : BOOLEAN, deps : BOOLEAN]
PlainHook == [queue |-> FALSE, deps |-> FALSE]

\* react-detector.ts:261-275  getHookType: 'queue' in node, then 'deps' in node
getHookType(shape) ==
  IF shape.queue THEN "useState"
  ELSE IF shape.deps THEN "useEffect"
  ELSE "custom"

\* part_002:1279  type: 'unknown'
clientHookType(shape) == "unknown"

\* react-detector.ts:225-230 / part_002:1277-1281: the record pushed for the
\* raw hook node h at position i
HookRecord(h, i) ==
  [id |-> i, node |-> h,
   type |-> IF hookImpl = "detector" THEN getHookType(hookShape[h])
            ELSE clientHookType(hookShape[h])]

\* react-detector.ts:224  while (hookNode)
DetectorContinues(h, i) == h # Null

\* part_002:1276  while (hook && index < 20)
ClientContinues(h, i) == h # Null /\ i < MaxHooks

Continues(h, i) ==
  IF hookImpl = "detector" THEN DetectorContinues(h, i) ELSE ClientContinues(h, i)

\* react-detector.ts:213-222, part_002:1269-1274
ExtractHooks ==
  /\ hstatus = "start"
  /\ IF memoizedState = Null
       THEN hstatus' = "done" /\ hookNode' = hookNode
       ELSE hstatus' = "decoding" /\ hookNode' = memoizedState
  /\ UNCHANGED <<hookImpl, memoizedState, hookNext, hookShape, hooks, hookSeen>>
  /\ UNCHANGED <<walkVars, resolveVars, chanVars, toolVars>>

\* one iteration of the loop: push the record, follow next, count
DecodeHook ==
  /\ hstatus = "decoding"
  /\ Continues(hookNode, Len(hooks))
  /\ ~(hookImpl = "detector" /\ hookNode \in hookSeen)
  /\ hooks' = Append(hooks, HookRecord(hookNode, Len(hooks)))
  /\ hookSeen' = hookSeen \cup {hookNode}
  /\ hookNode' = hookNext[hookNode]
  /\ UNCHANGED <<hookImpl, memoizedState, hookNext, hookShape, hstatus>>
  /\ UNCHANGED <<walkVars, resolveVars, chanVars, toolVars>>

\* the loop condition fails: return hooks
ReturnHooks ==
  /\ hstatus = "decoding"
  /\ ~Continues(hookNode, Len(hooks))
  /\ hstatus' = "done"
  /\ UNCHANGED <<hookImpl, memoizedState, hookNext, hookShape, hookNode, hooks, hookSeen>>
  /\ UNCHANGED <<walkVars, resolveVars, chanVars, toolVars>>

\* the unbounded loop is back at a hook node it has visited: the chain is
\* cyclic and the loop pushes records for ever
HookLoopForever ==
  /\ hstatus = "decoding"
  /\ hookImpl = "detector"
  /\ hookNode # Null /\ hookNode \in hookSeen
  /\ hstatus' = "diverged"
  /\ UNCHANGED <<hookImpl, memoizedState, hookNext, hookShape, hookNode, hooks, hookSeen>>
  /\ UNCHANGED <<walkVars, resolveVars, chanVars, toolVars>>

HooksIdle ==
  /\ hookImpl = "detector"
  /\ memoizedState = Null
  /\ hookNext = [h \in HookNodes |-> Null]
  /\ hookShape = [h \in HookNodes |-> PlainHook]
  /\ hookNode = Null
  /\ hooks = <<>>
  /\ hookSeen = {}
  /\ hstatus = "idle"

InitHookInputs ==
  /\ hookImpl \in HookImpls
  /\ memoizedState \in 0..MaxHookNodes
  /\ hookNext \in [HookNodes -> 0..MaxHookNodes]
  /\ hookShape = [h \in HookNodes |-> PlainHook]
  /\ hookNode = Null
  /\ hooks = <<>>
  /\ hookSeen = {}
  /\ hstatus = "start"

\* a fiber whose hook chain is the nodes 1..n in order, each with or without
\* an update queue and with or without a dependency list
InitHookShapes ==
  /\ hookImpl \in HookImpls
  /\ memoizedState = 1
  /\ \E n \in HookNodes :
       hookNext = [h \in HookNodes |-> IF h < n THEN h + 1 ELSE Null]
  /\ hookShape \in [HookNodes -> HookShapes]
  /\ hookNode = Null
  /\ hooks = <<>>
  /\ hookSeen = {}
  /\ hstatus = "start"

(***************************************************************************)
(* getComponentSourceLocation / resolveComponentFile                       *)
(***************************************************************************)
NoSource == [fileName |-> "none", lineNumber |-> -1, columnNumber |-> -1]
NoLocation == [file |-> "null", line |-> -1, column |-> -1]
NoPath == "null"

FileNames == {"", "/abs/Button.tsx", "lib/Card.tsx"}
Sources == {NoSource} \cup [fileName : FileNames, lineNumber : {0, 10}, columnNumber : {0, 3}]
CompNames == {"", "UserCard"}
DisplayNames == {"", "Card"}
Components == [source : Sources, name : CompNames, displayName : DisplayNames]

\* source-navigation.ts:211-220  the file patterns, in order; a pattern is
\* the component name followed by one of these
Patterns == <<".tsx", ".jsx", ".ts", ".js", "/index.tsx", "/index.jsx", "/index.ts", "/index.js">>

\* source-navigation.ts:225  join(projectRoot, srcDir, pattern)
Join(root, dir, stem, suffix) == [root |-> root, dir |-> dir, stem |-> stem, suffix |-> suffix]

Roots == {"/proj", "/nowhere"}
DirLists == {<<"src", "app", "components">>, <<"src">>, <<"app", "src">>}
FsUniverse ==
  { Join("/proj", "src", "UserCard", ".tsx"),
    Join("/proj", "src", "UserCard", "/index.ts"),
    Join("/proj", "app", "UserCard", ".jsx"),
    Join("/proj", "components", "Card", ".js") }

\* source-navigation.ts:171-189
getComponentSourceLocation(c) ==
  IF c.source # NoSource
    THEN [file |-> c.source.fileName, line |-> c.source.lineNumber,
          column |-> c.source.columnNumber]
    ELSE NoLocation

\* a probe order that tries each pattern in every directory before it moves
\* to the next pattern
CandidatesPatternMajor(root, dirs, stem) ==
  LET nd == Len(dirs)
  IN [k \in 1..(nd * Len(Patterns)) |->
        Join(root, dirs[((k - 1) % nd) + 1], stem, Patterns[((k - 1) \div nd) + 1])]

\* source-navigation.ts:223-230  the probe order: for each directory, every
\* pattern
Candidates(root, dirs, stem) ==
  LET np == Len(Patterns)
  IN [k \in 1..(Len(dirs) * np) |->
        Join(root, dirs[((k - 1) \div np) + 1], stem, Patterns[((k - 1) % np) + 1])]

\* the candidates probed up to and including the first that exists
RECURSIVE ProbeUntilFound(_, _, _)
ProbeUntilFound(cands, k, files) ==
  IF k > Len(cands) THEN [path |-> NoPath, probes |-> cands]
  ELSE IF cands[k] \in files THEN [path |-> cands[k], probes |-> SubSeq(cands, 1, k)]
  ELSE ProbeUntilFound(cands, k + 1, files)

\* a resolver that goes to the file system before it looks at the metadata
resolveIgnoringSource(c, root, dirs, files) ==
  LET componentName == IF c.displayName # "" THEN c.displayName ELSE c.name
  IN IF componentName = "" THEN [path |-> NoPath, probes |-> <<>>]
     ELSE ProbeUntilFound(Candidates(root, dirs, componentName), 1, files)

\* source-navigation.ts:194-233  the result and the existsSync calls made
resolveComponentFile(c, root, dirs, files) ==
  LET loc == getComponentSourceLocation(c)
      componentName == IF c.displayName # "" THEN c.displayName ELSE c.name
  IN IF loc # NoLocation /\ loc.file # "" THEN [path |-> loc.file, probes |-> <<>>]
     ELSE IF componentName = "" THEN [path |-> NoPath, probes |-> <<>>]
     ELSE ProbeUntilFound(Candidates(root, dirs, componentName), 1, files)

GetComponentSourceLocation ==
  /\ "location" \notin rdone
  /\ rdone # {"idle"}
  /\ location' = getComponentSourceLocation(component)
  /\ rdone' = rdone \cup {"location"}
  /\ UNCHANGED <<component, fs, projectRoot, srcDirs, resolved, probes>>
  /\ UNCHANGED <<walkVars, hookVars, chanVars, toolVars>>

ResolveComponentFile ==
  /\ "resolve" \notin rdone
  /\ rdone # {"idle"}
  /\ LET r == resolveComponentFile(component, projectRoot, srcDirs, fs)
     IN resolved' = [file |-> r.path] /\ probes' = r.probes
  /\ rdone' = rdone \cup {"resolve"}
  /\ UNCHANGED <<component, fs, projectRoot, srcDirs, location>>
  /\ UNCHANGED <<walkVars, hookVars, chanVars, toolVars>>

ResolveIdle ==
  /\ component = [source |-> NoSource, name |-> "", displayName |-> ""]
  /\ fs = {}
  /\ projectRoot = "/proj"
  /\ srcDirs = <<"src", "app", "components">>
  /\ location = NoLocation
  /\ resolved = [file |-> NoPath]
  /\ probes = <<>>
  /\ rdone = {"idle"}

InitResolveInputs ==
  /\ component \in Components
  /\ fs \in SUBSET FsUniverse
  /\ projectRoot \in Roots
  /\ srcDirs \in DirLists
  /\ location = NoLocation
  /\ resolved = [file |-> NoPath]
  /\ probes = <<>>
  /\ rdone = {}

(***************************************************************************)
(* SUPPORTED_EDITORS, launchEditor, handleOpenSource                       *)
(***************************************************************************)
\* an optional number that was not passed (line?: number, column?: number)
Undefined == -1

\* JavaScript truthiness of an optional number
Truthy(n) == n # Undefined /\ n # 0

\* a location token with line and column the other way round
ColumnLineFile(f, line, column) ==
  IF Truthy(line) /\ Truthy(column) THEN f \o ":" \o ToString(column) \o ":" \o ToString(line)
  ELSE IF Truthy(line) THEN f \o ":" \o ToString(line)
  ELSE f

\* source-navigation.ts:30, 38, 62, 70
\* line && column ? `${file}:${line}:${column}` : line ? `${file}:${line}` : file
FileLineColumn(f, line, column) ==
  IF Truthy(line) /\ Truthy(column) THEN f \o ":" \o ToString(line) \o ":" \o ToString(column)
  ELSE IF Truthy(line) THEN f \o ":" \o ToString(line)
  ELSE f

\* source-navigation.ts:46, 54  line ? `${file}:${line}` : file
FileLine(f, line) == IF Truthy(line) THEN f \o ":" \o ToString(line) ELSE f

\* source-navigation.ts:25-88  the registry, in the order of its entries;
\* shape says which of the four args functions the profile has
EditorOrder ==
  <<"code", "code-insiders", "webstorm", "idea", "sublime", "atom", "vim", "emacs">>

EditorKeys == {EditorOrder[i] : i \in 1..Len(EditorOrder)}

SUPPORTED_EDITORS ==
  [k \in EditorKeys |->
     CASE k = "code" -> [name |-> "Visual Studio Code", command |-> "code", shape |-> "goto"]
       [] k = "code-insiders" ->
            [name |-> "Visual Studio Code Insiders", command |-> "code-insiders", shape |-> "goto"]
       [] k = "webstorm" -> [name |-> "WebStorm", command |-> "webstorm", shape |-> "line"]
       [] k = "idea" -> [name |-> "IntelliJ IDEA", command |-> "idea", shape |-> "line"]
       [] k = "sublime" -> [name |-> "Sublime Text", command |-> "subl", shape |-> "token"]
       [] k = "atom" -> [name |-> "Atom", command |-> "atom", shape |-> "token"]
       [] k = "vim" -> [name |-> "Vim", command |-> "vim", shape |-> "plus"]
       [] k = "emacs" -> [name |-> "Emacs", command |-> "emacs", shape |-> "plus"]]

\* the args function of a profile (source-navigation.ts:29-32, 45-48, 61-64,
\* 77-79)
EditorArgs(shape, f, line, column) ==
  CASE shape = "goto" -> <<"--goto", FileLineColumn(f, line, column)>>
    [] shape = "line" -> <<"--line", FileLine(f, line)>>
    [] shape = "token" -> <<FileLineColumn(f, line, column)>>
    [] shape = "plus" -> IF Truthy(line) THEN <<"+" \o ToString(line), f>> ELSE <<f>>

\* keys every object literal inherits from Object.prototype: the lookup
\* SUPPORTED_EDITORS[key] gives a truthy value that has no args function
InheritedKeys == {"constructor"}

NoConfig == [name |-> "undefined", command |-> "undefined", shape |-> "undefined"]

\* a lookup that falls back to running the key itself as the command
EditorConfigOrGeneric(editor) ==
  IF editor \in EditorKeys THEN SUPPORTED_EDITORS[editor]
  ELSE [name |-> editor, command |-> editor, shape |-> "token"]

\* source-navigation.ts:133  SUPPORTED_EDITORS[editor]
EditorConfig(editor) ==
  IF editor \in EditorKeys THEN SUPPORTED_EDITORS[editor]
  ELSE IF editor \in InheritedKeys
    THEN [name |-> "Object", command |-> "undefined", shape |-> "inherited"]
  ELSE NoConfig

\* process.cwd()
Cwd == "/cwd"

IsAbsolute(f) == Len(f) > 0 /\ SubSeq(f, 1, 1) = "/"

\* source-navigation.ts:140  projectRoot ? resolve(projectRoot, file) : resolve(file)
Resolve(root, f) ==
  LET base == IF root = "" THEN Cwd ELSE root
  IN IF IsAbsolute(f) THEN f
     ELSE IF f = "" THEN base
     ELSE base \o "/" \o f

\* a check that takes every path to exist
ExistsAlways(path, files) == TRUE

\* source-navigation.ts:143  existsSync(resolvedFile)
ExistsSync(path, files) == path \in files

\* what child_process.spawn does with the command: the process starts; the
\* command cannot be started and the child emits 'error' later (ENOENT,
\* EACCES); or spawn itself throws
SpawnModes == {"starts", "enoent", "throws"}

NoChild == [state |-> "none", mode |-> "none"]

Returned3(result, calls, log, ch) ==
  [result |-> result, calls |-> calls, logs |-> log, child |-> ch]

\* source-navigation.ts:148-165  the try block of launchEditor: build the
\* arguments, spawn detached, unref, return true; the catch returns false.
\* Nothing listens to the child's events
LaunchAttempt(config, resolvedFile, line, column, mode) ==
  IF config.shape = "inherited"
    THEN \* editorConfig.args is not a function: TypeError, caught
         Returned3(FALSE, <<>>, <<"Failed to launch">>, NoChild)
  ELSE LET c == [command |-> config.command,
                 args |-> EditorArgs(config.shape, resolvedFile, line, column),
                 detached |-> TRUE]
       IN IF mode = "throws"
            THEN Returned3(FALSE, <<c>>, <<"Failed to launch">>, NoChild)
            ELSE Returned3(TRUE, <<c>>, <<"Opened">>, [state |-> "running", mode |-> mode])

\* source-navigation.ts:126-166  launchEditor
launchEditor(editor, f, line, column, root, files, mode) ==
  LET config == EditorConfig(editor)
      resolvedFile == Resolve(root, f)
  IN IF config = NoConfig
       THEN Returned3(FALSE, <<>>, <<"Unsupported editor">>, NoChild)
     ELSE IF ~ExistsSync(resolvedFile, files)
       THEN Returned3(FALSE, <<>>, <<"File not found">>, NoChild)
     ELSE LaunchAttempt(config, resolvedFile, line, column, mode)

\* a path join() made, as the string launchEditor is given
PathString(j) == j.root \o "/" \o j.dir \o "/" \o j.stem \o j.suffix

\* source-navigation.ts:238-264  the handler createSourceNavigationHandler
\* returns, applied to a component
NavigationHandler(editor, root, c, files, mode) ==
  LET loc == getComponentSourceLocation(c)
      filePath == resolveComponentFile(c, root, srcDirs, fs).path
  IN IF loc # NoLocation
       THEN launchEditor(editor, loc.file, loc.line, loc.column, root, files, mode)
     ELSE IF filePath # NoPath
       THEN launchEditor(editor, PathString(filePath), Undefined, Undefined, root, files, mode)
     ELSE Returned3(FALSE, <<>>, <<"Could not resolve source location">>, NoChild)

LaunchFiles == {"main.ts", "/abs/Button.tsx"}
LaunchLines == {Undefined, 0, 10}
LaunchColumns == {Undefined, 0, 3}
LaunchRoots == {"", "/proj"}
Editors == EditorKeys \cup InheritedKeys \cup {"notepad", ""}

\* the paths the calls can resolve to
LaunchPaths ==
  {"/cwd/main.ts", "/proj/main.ts", "/abs/Button.tsx", "/proj/lib/Card.tsx", "/proj"}

FileSystems == {{}, LaunchPaths} \cup {{q} : q \in LaunchPaths}

NoCall ==
  [via |-> "none", editor |-> "", file |-> "", line |-> Undefined, column |-> Undefined,
   root |-> "", handler |-> FALSE, data |-> "none"]

\* launchEditor called by a user of the module
ApiCalls ==
  [via : {"launchEditor"}, editor : Editors, file : LaunchFiles, line : LaunchLines,
   column : LaunchColumns, root : LaunchRoots, handler : {FALSE}, data : {"none"}]

\* SUPPORTED_EDITORS[key].args called by a user of the module
ArgsCalls ==
  [via : {"args"}, editor : EditorKeys, file : LaunchFiles, line : LaunchLines,
   column : LaunchColumns, root : {""}, handler : {FALSE}, data : {"none"}]

\* an OPEN_SOURCE message whose data names a file (index.ts:240-242); editor
\* and root are globalEditorName and globalProjectRoot, handler says whether
\* configResolved has set globalSourceNavigationHandler (index.ts:66-72)
FileRequests ==
  [via : {"OPEN_SOURCE"}, editor : Editors, file : LaunchFiles \cup {""}, line : LaunchLines,
   column : LaunchColumns, root : {"/proj"}, handler : BOOLEAN, data : {"file"}]

\* an OPEN_SOURCE message whose data holds a component (index.ts:237-239)
ComponentRequests ==
  [via : {"OPEN_SOURCE"}, editor : Editors, file : {""}, line : {Undefined},
   column : {Undefined}, root : {"/proj"}, handler : BOOLEAN, data : {"component"}]

LaunchOutputsStart ==
  /\ launched = "none"
  /\ spawnCalls = <<>>
  /\ logs = <<>>
  /\ proc = NoChild
  /\ crashed = FALSE
  /\ built = <<>>
  /\ replies = <<>>

LaunchIdle ==
  /\ call = NoCall
  /\ lfs = {}
  /\ LaunchOutputsStart
  /\ lstatus = "idle"

InitLaunchInputs ==
  /\ call \in ApiCalls \cup ArgsCalls \cup FileRequests \cup ComponentRequests
  /\ lfs \in FileSystems
  /\ LaunchOutputsStart
  /\ lstatus = "start"

\* the component of an OPEN_SOURCE request; the file system holds none of
\* the files the name patterns would find
InitLaunchComponent ==
  /\ IF call.data = "component"
       THEN component \in Components
       ELSE component = [source |-> NoSource, name |-> "", displayName |-> ""]
  /\ fs = {}
  /\ projectRoot = "/proj"
  /\ srcDirs = <<"src", "app", "components">>
  /\ location = NoLocation
  /\ resolved = [file |-> NoPath]
  /\ probes = <<>>
  /\ rdone = {"idle"}

Settle(r) ==
  /\ launched' = IF r.result THEN "true" ELSE "false"
  /\ spawnCalls' = r.calls
  /\ logs' = r.logs
  /\ proc' = r.child

\* source-navigation.ts:126-166  a call of launchEditor
LaunchEditor ==
  /\ lstatus = "start"
  /\ call.via = "launchEditor"
  /\ \E mode \in SpawnModes :
       Settle(launchEditor(call.editor, call.file, call.line, call.column, call.root,
                           lfs, mode))
  /\ lstatus' = "returned"
  /\ UNCHANGED <<call, lfs, crashed, built, replies>>
  /\ UNCHANGED <<walkVars, hookVars, resolveVars, chanVars, detectVars, plugVars>>

\* source-navigation.ts:29-32 ...  a call of a profile's args function
ProfileArgs ==
  /\ lstatus = "start"
  /\ call.via = "args"
  /\ built' = EditorArgs(SUPPORTED_EDITORS[call.editor].shape, call.file, call.line,
                         call.column)
  /\ lstatus' = "returned"
  /\ UNCHANGED <<call, lfs, launched, spawnCalls, logs, proc, crashed, replies>>
  /\ UNCHANGED <<walkVars, hookVars, resolveVars, chanVars, detectVars, plugVars>>

\* index.ts:205-207, 230-249  the server gets OPEN_SOURCE: handleOpenSource
\* (message.data).  The handler is not given the socket and sends nothing
HandleOpenSource ==
  /\ lstatus = "start"
  /\ call.via = "OPEN_SOURCE"
  /\ IF ~call.handler
       THEN /\ logs' = <<"Source navigation not initialized">>
            /\ UNCHANGED <<launched, spawnCalls, proc>>
     ELSE IF call.data = "component"
       THEN \E mode \in SpawnModes :
              Settle(NavigationHandler(call.editor, call.root, component, lfs, mode))
     ELSE IF call.file # ""
       THEN \E mode \in SpawnModes :
              Settle(launchEditor(call.editor, call.file, call.line, call.column,
                                  call.root, lfs, mode))
     ELSE UNCHANGED <<launched, spawnCalls, logs, proc>>
  /\ replies' = replies
  /\ lstatus' = "returned"
  /\ UNCHANGED <<call, lfs, crashed, built>>
  /\ UNCHANGED <<walkVars, hookVars, resolveVars, chanVars, detectVars, plugVars>>

\* the command could not be started: the child emits 'error'.  No listener
\* was added (source-navigation.ts:151-156), so the event is thrown as an
\* uncaught exception and ends the host process
ChildError ==
  /\ proc.state = "running"
  /\ proc.mode = "enoent"
  /\ proc' = [proc EXCEPT !.state = "failed"]
  /\ crashed' = TRUE
  /\ UNCHANGED <<call, lfs, launched, spawnCalls, logs, built, replies, lstatus>>
  /\ UNCHANGED <<walkVars, hookVars, resolveVars, chanVars, detectVars, plugVars>>

\* the editor exits, with whatever status: nobody waits for it
ChildExit ==
  /\ proc.state = "running"
  /\ proc.mode = "starts"
  /\ \E code \in {0, 1} : proc' = [proc EXCEPT !.state = "exited " \o ToString(code)]
  /\ UNCHANGED <<call, lfs, launched, spawnCalls, logs, crashed, built, replies, lstatus>>
  /\ UNCHANGED <<walkVars, hookVars, resolveVars, chanVars, detectVars, plugVars>>

(***************************************************************************)
(* detectAvailableEditors                                                  *)
(***************************************************************************)
\* how `command --version` ends: status 0; another status; still running
\* after 3000 ms, so that spawn's timeout kills it and 'close' reports no
\* status; the command cannot be started ('error'); spawn throws
Outcomes == {"exit0", "exit1", "timeout", "enoent", "throws"}

\* the probes whose command exists on the machine
Installed(o) == {e \in EditorKeys : o[e] # "enoent"}

\* a probe that is satisfied as soon as the process has closed
ProbeResolvesOnClose(o) == o \in {"exit0", "exit1", "timeout"}

\* source-navigation.ts:98-112  the promise resolves on close with code 0 and
\* rejects on every other close and on 'error'
ProbeResolves(o) == o = "exit0"

\* source-navigation.ts:93-103  detectAvailableEditors is called: the first
\* iteration of the loop spawns the first probe and awaits it
DetectAvailableEditors ==
  /\ dstatus = "start"
  /\ probeIdx' = 1
  /\ inflight' = {EditorOrder[1]}
  /\ probed' = <<EditorOrder[1]>>
  /\ dstatus' = "probing"
  /\ UNCHANGED <<outcome, available>>
  /\ UNCHANGED <<walkVars, hookVars, resolveVars, chanVars, launchVars, plugVars>>

\* source-navigation.ts:104-120  the awaited probe settles: the key is pushed
\* or the rejection is swallowed by the catch; then the next iteration spawns
\* the next probe, or the loop is over and `available` is returned
ProbeSettles ==
  /\ dstatus = "probing"
  /\ inflight = {EditorOrder[probeIdx]}
  /\ available' = IF ProbeResolves(outcome[EditorOrder[probeIdx]])
                    THEN Append(available, EditorOrder[probeIdx])
                    ELSE available
  /\ IF probeIdx < Len(EditorOrder)
       THEN /\ probeIdx' = probeIdx + 1
            /\ inflight' = {EditorOrder[probeIdx + 1]}
            /\ probed' = Append(probed, EditorOrder[probeIdx + 1])
            /\ dstatus' = "probing"
       ELSE /\ inflight' = {}
            /\ dstatus' = "returned"
            /\ UNCHANGED <<probeIdx, probed>>
  /\ UNCHANGED outcome
  /\ UNCHANGED <<walkVars, hookVars, resolveVars, chanVars, launchVars, plugVars>>

DetectIdle ==
  /\ outcome = [e \in EditorKeys |-> "enoent"]
  /\ probeIdx = 0
  /\ inflight = {}
  /\ probed = <<>>
  /\ available = <<>>
  /\ dstatus = "idle"

InitDetectInputs ==
  /\ outcome \in [EditorKeys -> Outcomes]
  /\ Cardinality(Installed(outcome)) <= MaxInstalled
  /\ probeIdx = 0
  /\ inflight = {}
  /\ probed = <<>>
  /\ available = <<>>
  /\ dstatus = "start"

(***************************************************************************)
(* The channel: WebSocket server of the plugin, client script of the page  *)
(***************************************************************************)
Clients == 1..NumClients
\* sockets a page creates: the first, one for every lost connection (an
\* event each), and the retries of one run of refused attempts, with room
\* for one retry more than the cap allows
MaxSockets == MaxEvents + maxReconnectAttempts + 2
Sockets == Clients \X (1..MaxSockets)
Revs == {"index", "part002"}
NullTree == 0

\* stale: the page has applied a COMPONENT_TREE generated after this one
Msg(t) == [type |-> t, data |-> NullTree, stale |-> FALSE]
TreeMsg(d) == [type |-> "COMPONENT_TREE", data |-> d, stale |-> FALSE]

Ws(c) == <<c, cur[c]>>

\* ws && ws.readyState === WebSocket.OPEN
WsOpen(c) == cur[c] > 0 /\ cstate[Ws(c)] = "open"

\* ws.send(JSON.stringify(m)) by the page, when the socket is open
ClientSend(q, c, ms) ==
  IF WsOpen(c) THEN [q EXCEPT ![Ws(c)] = @ \o ms] ELSE q

Room(q, s, n) == Len(q[s]) + n <= MaxQueue

\* index.ts:77, 100  isProduction && !enableInProduction
Disabled == isProduction /\ ~enableInProduction

\* index.ts:133, part_002:408  the test of setupWebSocketServer's early return
AlreadySetUp == IF rev = "index" THEN wss ELSE wss /\ server

\* index.ts:132-173, part_002:407-467  setupWebSocketServer: unless it
\* returns early, a new http server with a wss on it is made and told to
\* listen; it gets the port if no earlier server still holds it
setupWebSocketServer ==
  IF AlreadySetUp
    THEN UNCHANGED <<wss, server, listening, upgrades>>
    ELSE /\ wss' = TRUE
         /\ server' = (rev = "part002")
         /\ listening' = TRUE
         /\ upgrades' = ~listening

\* index.ts:75-92, part_002:327-345  configureServer, called by the host
\* after configResolved
ConfigureServer ==
  /\ lastHook # "none"
  /\ IF Disabled
       THEN UNCHANGED <<wss, server, listening, upgrades, middleware>>
       ELSE setupWebSocketServer /\ middleware' = TRUE
  /\ lastHook' = "configureServer"
  /\ UNCHANGED <<command, configMode, enableInProduction, isProduction, ended, html, served>>
  /\ UNCHANGED <<rev, clients, componentTree, sstate, toServer, toClient, order>>
  /\ UNCHANGED <<clientVars, ghostVars>>
  /\ UNCHANGED <<walkVars, hookVars, resolveVars, launchVars, detectVars, serveVars, idVars>>

\* connect() called while the page's previous socket may still be live
CanConnectAnytime(c) == TRUE

\* the page may call connect(): at script start (index.ts:873) or when the
\* timer set by onclose fires (index.ts:798)
CanConnect(c) == cur[c] = 0 \/ retryTimer[c]

\* index.ts:768-770, part_002:1307-1309  connect(): ws = new WebSocket(...)
Connect(c) ==
  /\ CanConnect(c)
  /\ cur[c] < MaxSockets
  /\ cur' = [cur EXCEPT ![c] = @ + 1]
  /\ cstate' = [cstate EXCEPT ![<<c, cur[c] + 1>>] = "connecting"]
  /\ retryTimer' = [retryTimer EXCEPT ![c] = FALSE]
  /\ retries' = [retries EXCEPT ![c] = IF retryTimer[c] THEN @ + 1 ELSE @]
  /\ UNCHANGED <<reconnectAttempts, retryDelay, devToolsUI, hookWraps, treeTimers, events>>
  /\ UNCHANGED <<serverVars, received, applied, owed, errored>>
  /\ UNCHANGED <<walkVars, hookVars, resolveVars, toolVars>>

\* index.ts:140-143  wss.on('connection'): devToolsState.clients.add(ws)
Accept(s) ==
  /\ listening /\ upgrades
  /\ cstate[s] = "connecting"
  /\ sstate[s] = "none"
  /\ sstate' = [sstate EXCEPT ![s] = "open"]
  /\ clients' = clients \cup {s}
  /\ UNCHANGED <<rev, wss, componentTree, toServer, toClient, order>>
  /\ UNCHANGED <<clientVars, ghostVars>>
  /\ UNCHANGED <<walkVars, hookVars, resolveVars, toolVars>>

\* an onclose that schedules a retry however many attempts have failed
OnCloseUncapped(c) ==
  /\ reconnectAttempts' = [reconnectAttempts EXCEPT ![c] = @ + 1]
  /\ retryTimer' = [retryTimer EXCEPT ![c] = TRUE]
  /\ retryDelay' = [retryDelay EXCEPT ![c] = 1000 * (reconnectAttempts[c] + 1)]

\* index.ts:792-800  ws.onclose: schedule connect after 1000 * attempts ms
OnClose(c) ==
  /\ reconnectAttempts' =
       [reconnectAttempts EXCEPT ![c] = IF @ < maxReconnectAttempts THEN @ + 1 ELSE @]
  /\ retryTimer' =
       [retryTimer EXCEPT ![c] = @ \/ reconnectAttempts[c] < maxReconnectAttempts]
  /\ retryDelay' =
       [retryDelay EXCEPT ![c] = IF reconnectAttempts[c] < maxReconnectAttempts
                                   THEN 1000 * (reconnectAttempts[c] + 1)
                                   ELSE @]

\* index.ts:772-781, part_002:1311-1320  ws.onopen: reset the attempts, set
\* up the React integration, request the tree.  setupReactIntegration wraps
\* hook.onCommitFiberRoot (index.ts:727-739, part_002:1122-1137); the
\* part_002 revision also sets a 500 ms timer for a tree request
OnOpen(s) ==
  LET c == s[1]
      \* requestComponentTree() sends on ws, the page's latest socket
      sends == s = Ws(c) \/ cstate[Ws(c)] = "open"
  IN
  /\ cstate[s] = "connecting"
  /\ sstate[s] = "open"
  /\ sends => Room(toServer, Ws(c), 1)
  /\ cstate' = [cstate EXCEPT ![s] = "open"]
  /\ reconnectAttempts' = [reconnectAttempts EXCEPT ![c] = 0]
  /\ hookWraps' = [hookWraps EXCEPT ![c] = @ + 1]
  /\ treeTimers' = [treeTimers EXCEPT ![c] = IF rev = "part002" THEN @ + 1 ELSE @]
  /\ toServer' = IF sends
                   THEN [toServer EXCEPT ![Ws(c)] = Append(@, Msg("GET_COMPONENT_TREE"))]
                   ELSE toServer
  /\ UNCHANGED <<cur, retryTimer, retryDelay, devToolsUI, events>>
  /\ UNCHANGED <<rev, wss, clients, componentTree, sstate, toClient, order>>
  /\ retries' = [retries EXCEPT ![c] = 0]
  /\ UNCHANGED <<received, applied, owed, errored>>
  /\ UNCHANGED <<walkVars, hookVars, resolveVars, toolVars>>

\* nothing listens on the port: the connection attempt is refused and the
\* page gets error and close
ConnectRefused(s) ==
  LET c == s[1] IN
  /\ ~(listening /\ upgrades)
  /\ cstate[s] = "connecting"
  /\ cstate' = [cstate EXCEPT ![s] = "closed"]
  /\ OnClose(c)
  /\ UNCHANGED <<cur, devToolsUI, hookWraps, treeTimers, events>>
  /\ UNCHANGED <<serverVars, ghostVars>>
  /\ UNCHANGED <<walkVars, hookVars, resolveVars, toolVars>>

\* the connection attempt fails, or the open connection is lost: the page
\* gets error (logged, index.ts:802) and close
ClientClose(s) ==
  LET c == s[1] IN
  /\ cstate[s] \in {"connecting", "open"}
  /\ events < MaxEvents
  /\ events' = events + 1
  /\ cstate' = [cstate EXCEPT ![s] = "closed"]
  /\ toClient' = [toClient EXCEPT ![s] = <<>>]
  /\ order' = [order EXCEPT ![c] = SelectSeq(@, LAMBDA j : j # s[2])]
  /\ OnClose(c)
  /\ owed' = [owed EXCEPT ![c] = FALSE]
  /\ UNCHANGED <<cur, devToolsUI, hookWraps, treeTimers>>
  /\ UNCHANGED <<rev, wss, clients, componentTree, sstate, toServer>>
  /\ UNCHANGED <<received, applied, errored, retries>>
  /\ UNCHANGED <<walkVars, hookVars, resolveVars, toolVars>>

\* a handler that leaves the registry as it is
Kept(registry, s) == registry

\* index.ts:156, 163  devToolsState.clients.delete(ws): removes the socket if
\* it is there and neither fails nor removes anything if it is not
Deleted(registry, s) == registry \ {s}

\* index.ts:161-164  ws.on('error') of a connection that is lost:
\* clients.delete(ws); the socket emits 'close' afterwards
ServerError(s) ==
  /\ sstate[s] = "open"
  /\ cstate[s] = "closed"
  /\ sstate' = [sstate EXCEPT ![s] = "errored"]
  /\ clients' = Deleted(clients, s)
  /\ errored' = errored \cup {s}
  /\ toServer' = [toServer EXCEPT ![s] = <<>>]
  /\ UNCHANGED <<rev, wss, componentTree, toClient, order>>
  /\ UNCHANGED <<clientVars, received, applied, owed, retries>>
  /\ UNCHANGED <<walkVars, hookVars, resolveVars, toolVars>>

\* index.ts:155-159  ws.on('close') of a connection that is lost, after an
\* error or without one: clients.delete(ws)
ServerClose(s) ==
  /\ sstate[s] \in {"open", "errored", "closing"}
  /\ cstate[s] = "closed"
  /\ sstate' = [sstate EXCEPT ![s] = "closed"]
  /\ clients' = Deleted(clients, s)
  /\ toServer' = [toServer EXCEPT ![s] = <<>>]
  /\ UNCHANGED <<rev, wss, componentTree, toClient, order>>
  /\ UNCHANGED <<clientVars, ghostVars>>
  /\ UNCHANGED <<walkVars, hookVars, resolveVars, toolVars>>

\* index.ts:836-863  initializeUI, at once or on DOMContentLoaded
InitializeUI(c) ==
  /\ ~devToolsUI[c]
  /\ devToolsUI' = [devToolsUI EXCEPT ![c] = TRUE]
  /\ UNCHANGED <<cur, cstate, reconnectAttempts, retryTimer, retryDelay, hookWraps, treeTimers,
                 events>>
  /\ UNCHANGED <<serverVars, ghostVars>>
  /\ UNCHANGED <<walkVars, hookVars, resolveVars, toolVars>>

\* index.ts:830-834, part_002:1361-1365  requestComponentTree, called by the
\* UI's toggle/open and by the refresh interval (index.ts:848-889)
RequestComponentTree(c) ==
  /\ devToolsUI[c]
  /\ events < MaxEvents
  /\ WsOpen(c) => Room(toServer, Ws(c), 1)
  /\ events' = events + 1
  /\ toServer' = ClientSend(toServer, c, <<Msg("GET_COMPONENT_TREE")>>)
  /\ UNCHANGED <<cur, cstate, reconnectAttempts, retryTimer, retryDelay, devToolsUI, hookWraps,
                 treeTimers>>
  /\ UNCHANGED <<rev, wss, clients, componentTree, sstate, toClient, order>>
  /\ UNCHANGED ghostVars
  /\ UNCHANGED <<walkVars, hookVars, resolveVars, toolVars>>

\* part_002:1134-1142  a timer set by setupReactIntegration or by its commit
\* listener fires: requestComponentTree()
TreeTimerFires(c) ==
  /\ treeTimers[c] > 0
  /\ WsOpen(c) => Room(toServer, Ws(c), 1)
  /\ treeTimers' = [treeTimers EXCEPT ![c] = @ - 1]
  /\ toServer' = ClientSend(toServer, c, <<Msg("GET_COMPONENT_TREE")>>)
  /\ UNCHANGED <<cur, cstate, reconnectAttempts, retryTimer, retryDelay, devToolsUI, hookWraps,
                 events>>
  /\ UNCHANGED <<rev, wss, clients, componentTree, sstate, toClient, order>>
  /\ UNCHANGED ghostVars
  /\ UNCHANGED <<walkVars, hookVars, resolveVars, toolVars>>

\* the host runtime of the page commits: every wrapper installed on
\* hook.onCommitFiberRoot runs once.  index.ts:728-738 sends FIBER_COMMIT,
\* part_002:1125-1137 sets a 100 ms timer for requestComponentTree
Commit(c) ==
  /\ events < MaxEvents
  /\ events' = events + 1
  /\ IF rev = "index"
       THEN /\ WsOpen(c) => Room(toServer, Ws(c), hookWraps[c])
            /\ toServer' = ClientSend(toServer, c,
                                      [k \in 1..hookWraps[c] |-> Msg("FIBER_COMMIT")])
            /\ UNCHANGED treeTimers
       ELSE /\ treeTimers' = [treeTimers EXCEPT ![c] = @ + hookWraps[c]]
            /\ UNCHANGED toServer
  /\ owed' = [owed EXCEPT ![c] = @ \/ WsOpen(c)]
  /\ UNCHANGED <<cur, cstate, reconnectAttempts, retryTimer, retryDelay, devToolsUI, hookWraps>>
  /\ UNCHANGED <<rev, wss, clients, componentTree, sstate, toClient, order>>
  /\ UNCHANGED <<received, applied, errored, retries>>
  /\ UNCHANGED <<walkVars, hookVars, resolveVars, toolVars>>

\* index.ts:177-183  case 'GET_COMPONENT_TREE': the payload of the reply
TreeReply == IF componentTree # NullTree THEN componentTree ELSE NullTree

\* index.ts:145-153 and handleDevToolsMessage (index.ts:175-216,
\* part_002:469-510): the server handles the next frame of a connection.  A
\* reply to a page that has already closed its end is lost
ServerHandle(s) ==
  /\ sstate[s] = "open"
  /\ toServer[s] # <<>>
  /\ LET m == Head(toServer[s])
         reaches == cstate[s] # "closed"
     IN
       /\ toServer' = [toServer EXCEPT ![s] = Tail(@)]
       /\ IF m.type = "GET_COMPONENT_TREE" /\ reaches
            THEN /\ Room(toClient, s, 1)
                 /\ toClient' = [toClient EXCEPT ![s] = Append(@, TreeMsg(TreeReply))]
                 /\ order' = [order EXCEPT ![s[1]] = Append(@, s[2])]
            ELSE \* FIBER_COMMIT and every other unknown type: console.warn
                 UNCHANGED <<toClient, order>>
  /\ UNCHANGED <<rev, wss, clients, componentTree, sstate>>
  /\ UNCHANGED <<clientVars, ghostVars>>
  /\ UNCHANGED <<walkVars, hookVars, resolveVars, toolVars>>

\* the page's handleDevToolsMessage applies a COMPONENT_TREE message:
\* index.ts:813-817 renders when the UI exists and the message has data,
\* part_002:1353-1358 writes the tree's size whenever the UI exists
Applies(c, m) ==
  /\ m.type = "COMPONENT_TREE"
  /\ devToolsUI[c]
  /\ rev = "index" => m.data # NullTree

\* position of the first entry of socket j in the generation order q
FirstOf(q, j) == CHOOSE p \in 1..Len(q) : q[p] = j /\ \A i \in 1..(p - 1) : q[i] # j

\* how many of the first p - 1 entries of q belong to socket j
OlderOn(q, p, j) == Cardinality({i \in 1..(p - 1) : q[i] = j})

\* index.ts:783-790  ws.onmessage of an open socket.  When the page applies
\* the message, the messages still in flight to it that the server generated
\* earlier become stale
ClientReceive(s) ==
  LET c == s[1] IN
  /\ cstate[s] = "open"
  /\ toClient[s] # <<>>
  /\ LET m == Head(toClient[s])
         p == FirstOf(order[c], s[2])
     IN
       /\ order' = [order EXCEPT ![c] = SubSeq(@, 1, p - 1) \o SubSeq(@, p + 1, Len(@))]
       /\ toClient' =
            [t \in Sockets |->
               IF t = s THEN Tail(toClient[s])
               ELSE IF t[1] = c /\ Applies(c, m)
                 THEN [k \in 1..Len(toClient[t]) |->
                         IF k <= OlderOn(order[c], p, t[2])
                           THEN [toClient[t][k] EXCEPT !.stale = TRUE]
                           ELSE toClient[t][k]]
               ELSE toClient[t]]
       /\ received' = [received EXCEPT ![c] = m.data]
       /\ applied' = [applied EXCEPT ![c] =
                        IF Applies(c, m)
                          THEN [stale |-> m.stale, sock |-> s[2],
                                count |-> IF @.count < 2 THEN @.count + 1 ELSE @.count]
                          ELSE @]
  /\ UNCHANGED <<owed, errored, retries>>
  /\ UNCHANGED <<rev, wss, clients, componentTree, sstate, toServer>>
  /\ UNCHANGED clientVars
  /\ UNCHANGED <<walkVars, hookVars, resolveVars, toolVars>>

(***************************************************************************)
(* The plugin's hooks, as the host calls them                              *)
(***************************************************************************)
Commands == {"serve", "build"}
Modes == {"development", "production"}
NoHtml == [doc |-> "none", injected |-> FALSE]

\* index.ts:66-72, part_002:318-324  configResolved
ConfigResolved ==
  /\ lastHook = "none"
  /\ isProduction' = (command = "build" \/ configMode = "production")
  /\ lastHook' = "configResolved"
  /\ UNCHANGED <<command, configMode, enableInProduction, server, listening, upgrades, middleware,
                 html, served, ended>>
  /\ UNCHANGED <<chanVars, walkVars, hookVars, resolveVars, launchVars, detectVars, serveVars, idVars>>

\* index.ts:96-113, part_002:348-383  transformIndexHtml: html.replace('<head>',
\* ...) puts the script tags behind the first <head> of the document and
\* leaves a document that has none as it is
TransformIndexHtml ==
  /\ lastHook # "none"
  /\ \E doc \in {"head", "headless"} :
       html' = [doc |-> doc, injected |-> ~Disabled /\ doc = "head"]
  /\ UNCHANGED <<command, configMode, enableInProduction, isProduction, lastHook, server, listening,
                 upgrades, middleware, served, ended>>
  /\ UNCHANGED <<chanVars, walkVars, hookVars, resolveVars, launchVars, detectVars, serveVars, idVars>>

\* a request for /__react-devtools/client.js.  index.ts:83-90: the route
\* installed by configureServer answers it with the script, and without the
\* route the request goes on to the host.  part_002:306-316: the host asks
\* resolveId and load, which answer for this id whatever the configuration is
RequestClientScript ==
  /\ lastHook # "none"
  /\ served' = IF rev = "part002" \/ middleware THEN "script" ELSE "next"
  /\ UNCHANGED <<command, configMode, enableInProduction, isProduction, lastHook, server, listening,
                 upgrades, middleware, html, ended>>
  /\ UNCHANGED <<chanVars, walkVars, hookVars, resolveVars, launchVars, detectVars, serveVars, idVars>>

\* server-side sockets a wss still counts as its clients
Live(s) == sstate[s] \in {"open", "errored", "closing"}

\* index.ts:122-128, part_002:392-403  buildEnd.  wss.close() detaches the wss
\* from the http server; whether it also terminates the connections it has
\* depends on the release of the ws package (up to 7: yes, from 8 on: no).
\* The http server is closed by part_002 only, and closing it leaves upgraded
\* connections alone
BuildEnd ==
  /\ lastHook # "none"
  /\ lastHook' = "buildEnd"
  /\ ended' = TRUE
  /\ IF rev = "part002"
       THEN /\ server' = FALSE
            /\ listening' = IF server THEN FALSE ELSE listening
            /\ wss' = FALSE
       ELSE UNCHANGED <<server, listening, wss>>
  /\ IF wss
       THEN /\ upgrades' = FALSE
            /\ clients' = {}
            /\ \E terminates \in BOOLEAN :
                 /\ sstate' = [s \in Sockets |->
                                 IF terminates /\ Live(s) THEN "closed" ELSE sstate[s]]
                 /\ toServer' = [s \in Sockets |->
                                   IF terminates /\ Live(s) THEN <<>> ELSE toServer[s]]
       ELSE UNCHANGED <<upgrades, clients, sstate, toServer>>
  /\ UNCHANGED <<command, configMode, enableInProduction, isProduction, middleware, html, served>>
  /\ UNCHANGED <<rev, componentTree, toClient, order>>
  /\ UNCHANGED <<clientVars, ghostVars>>
  /\ UNCHANGED <<walkVars, hookVars, resolveVars, launchVars, detectVars, serveVars, idVars>>

\* the server has terminated the connection: the page gets close
ClientDropped(s) ==
  LET c == s[1] IN
  /\ cstate[s] \in {"connecting", "open"}
  /\ sstate[s] = "closed"
  /\ cstate' = [cstate EXCEPT ![s] = "closed"]
  /\ toClient' = [toClient EXCEPT ![s] = <<>>]
  /\ order' = [order EXCEPT ![c] = SelectSeq(@, LAMBDA j : j # s[2])]
  /\ OnClose(c)
  /\ owed' = [owed EXCEPT ![c] = FALSE]
  /\ UNCHANGED <<cur, devToolsUI, hookWraps, treeTimers, events>>
  /\ UNCHANGED <<rev, wss, clients, componentTree, sstate, toServer>>
  /\ UNCHANGED <<received, applied, errored, retries>>
  /\ UNCHANGED <<walkVars, hookVars, resolveVars, toolVars>>

\* the plugin in a development server whose configuration has been resolved
HostIdle ==
  /\ command = "serve"
  /\ configMode = "development"
  /\ enableInProduction = FALSE
  /\ isProduction = FALSE
  /\ lastHook = "configResolved"
  /\ server = FALSE
  /\ listening = FALSE
  /\ upgrades = FALSE
  /\ middleware = FALSE
  /\ html = NoHtml
  /\ served = "none"
  /\ ended = FALSE

\* the plugin as reactDevTools(options) returns it, for every configuration
InitHostInputs ==
  /\ rev \in Revs
  /\ command \in Commands
  /\ configMode \in Modes
  /\ enableInProduction \in BOOLEAN
  /\ isProduction = FALSE
  /\ lastHook = "none"
  /\ server = FALSE
  /\ listening = FALSE
  /\ upgrades = FALSE
  /\ middleware = FALSE
  /\ html = NoHtml
  /\ served = "none"
  /\ ended = FALSE

(***************************************************************************)
(* The server's message handler and the inspectors that talk to it         *)
(***************************************************************************)
Peers == {<<1, i>> : i \in 1..NumPeers}
ComponentIds == {1, 2}

\* what an inspector may put on the wire: the requests the server knows, a
\* frame that is not JSON, the JSON text null, and a JSON object without type
SelectMsg(d) == [type |-> "SELECT_COMPONENT", data |-> d, stale |-> FALSE]
SelectedMsg(d) == [type |-> "COMPONENT_SELECTED", data |-> d, stale |-> FALSE]
Malformed == {Msg("<not JSON>"), Msg("<null>"), Msg("<no type>")}
InspectorFrames ==
  {Msg("GET_COMPONENT_TREE"), Msg("GET_AVAILABLE_EDITORS")}
    \cup {SelectMsg(d) : d \in ComponentIds} \cup Malformed

\* an inspector connects and index.ts:140-143 registers the connection
PeerConnect(s) ==
  /\ listening /\ upgrades
  /\ s \in Peers
  /\ cstate[s] = "unused" /\ sstate[s] = "none"
  /\ cstate' = [cstate EXCEPT ![s] = "open"]
  /\ sstate' = [sstate EXCEPT ![s] = "open"]
  /\ clients' = clients \cup {s}
  /\ UNCHANGED <<rev, wss, componentTree, toServer, toClient, order>>
  /\ UNCHANGED <<cur, reconnectAttempts, retryTimer, retryDelay, devToolsUI, hookWraps,
                 treeTimers, events>>
  /\ UNCHANGED ghostVars
  /\ UNCHANGED <<walkVars, hookVars, resolveVars, toolVars>>

\* an inspector sends a frame
PeerSend(s, f) ==
  /\ s \in Peers
  /\ cstate[s] = "open"
  /\ frames < MaxFrames
  /\ Room(toServer, s, 1)
  /\ frames' = frames + 1
  /\ toServer' = [toServer EXCEPT ![s] = Append(@, f)]
  /\ UNCHANGED <<handled, pendingEditors, slog>>
  /\ UNCHANGED <<rev, wss, clients, componentTree, sstate, toClient, order>>
  /\ UNCHANGED <<clientVars, ghostVars>>
  /\ UNCHANGED <<walkVars, hookVars, resolveVars, launchVars, detectVars, hostVars, idVars>>

\* an inspector closes its end
PeerClose(s) ==
  /\ s \in Peers
  /\ cstate[s] = "open"
  /\ cstate' = [cstate EXCEPT ![s] = "closed"]
  /\ UNCHANGED <<cur, reconnectAttempts, retryTimer, retryDelay, devToolsUI, hookWraps,
                 treeTimers, events>>
  /\ UNCHANGED <<serverVars, ghostVars>>
  /\ UNCHANGED <<walkVars, hookVars, resolveVars, toolVars>>

\* the server's socket takes the peer's close frame: its readyState is
\* CLOSING until its 'close' event is emitted
ServerClosing(s) ==
  /\ sstate[s] = "open"
  /\ cstate[s] = "closed"
  /\ sstate' = [sstate EXCEPT ![s] = "closing"]
  /\ UNCHANGED <<rev, wss, clients, componentTree, toServer, toClient, order>>
  /\ UNCHANGED <<clientVars, ghostVars>>
  /\ UNCHANGED <<walkVars, hookVars, resolveVars, toolVars>>

\* ws.send(JSON.stringify(m)) on the connection t
Send(q, t, m) == [q EXCEPT ![t] = Append(@, m)]

\* a broadcast that leaves out the test of readyState
broadcastToRegistered(q, m) ==
  [t \in Sockets |-> IF t \in clients THEN Append(q[t], m) ELSE q[t]]

\* index.ts:218-225, part_002:512-519  broadcastToClients
broadcastToClients(q, m) ==
  [t \in Sockets |-> IF t \in clients /\ sstate[t] = "open" THEN Append(q[t], m) ELSE q[t]]

\* a handler that gives up the connection that sent a frame it cannot use
LoggedAndClosed(s, entry) ==
  /\ slog' = Append(slog, entry)
  /\ sstate' = [sstate EXCEPT ![s] = "closed"]
  /\ clients' = clients \ {s}
  /\ UNCHANGED <<toClient, pendingEditors>>

\* index.ts:150-152 (catch: console.error) and index.ts:214-215 (default:
\* console.warn): the frame is logged and nothing else happens
LoggedAndDropped(s, entry) ==
  /\ slog' = Append(slog, entry)
  /\ UNCHANGED <<toClient, pendingEditors, sstate, clients>>

\* index.ts:145-153 with handleDevToolsMessage (index.ts:175-216,
\* part_002:469-510): the 'message' handler of a connection, for the frames
\* inspectors send.  JSON.parse throws on a frame that is not JSON, and
\* message.type throws on the value null; both land in the handler's catch
OnMessage(s) ==
  /\ s \in Peers
  /\ sstate[s] = "open"
  /\ toServer[s] # <<>>
  /\ toServer' = [toServer EXCEPT ![s] = Tail(@)]
  /\ LET m == Head(toServer[s]) IN
       CASE m.type \in {"<not JSON>", "<null>"} ->
              LoggedAndDropped(s, "Failed to parse DevTools message:")
         [] m.type = "GET_COMPONENT_TREE" ->
              /\ toClient' = Send(toClient, s, TreeMsg(TreeReply))
              /\ UNCHANGED <<slog, pendingEditors, sstate, clients>>
         [] m.type = "SELECT_COMPONENT" ->
              /\ toClient' = broadcastToClients(toClient, SelectedMsg(m.data))
              /\ UNCHANGED <<slog, pendingEditors, sstate, clients>>
         [] m.type = "GET_AVAILABLE_EDITORS" ->
              /\ pendingEditors' = Append(pendingEditors, s)
              /\ UNCHANGED <<slog, toClient, sstate, clients>>
         [] OTHER ->
              LoggedAndDropped(s, "Unknown DevTools message type:")
  /\ handled' = handled + 1
  /\ UNCHANGED frames
  /\ UNCHANGED <<rev, wss, componentTree, order>>
  /\ UNCHANGED <<clientVars, ghostVars>>
  /\ UNCHANGED <<walkVars, hookVars, resolveVars, launchVars, detectVars, hostVars, idVars>>

\* index.ts:254-268  handleGetAvailableEditors after its await: the reply
\* goes to the connection that asked; ws.send on a connection that is no
\* longer open sends nothing
EditorsDetected ==
  /\ pendingEditors # <<>>
  /\ LET s == Head(pendingEditors) IN
       toClient' = IF sstate[s] = "open"
                     THEN Send(toClient, s, Msg("AVAILABLE_EDITORS"))
                     ELSE toClient
  /\ pendingEditors' = Tail(pendingEditors)
  /\ UNCHANGED <<frames, handled, slog>>
  /\ UNCHANGED <<rev, wss, clients, componentTree, sstate, toServer, order>>
  /\ UNCHANGED <<clientVars, ghostVars>>
  /\ UNCHANGED <<walkVars, hookVars, resolveVars, launchVars, detectVars, hostVars, idVars>>

(***************************************************************************)
(* Component ids                                                           *)
(***************************************************************************)
\* what Math.random().toString(36) leaves behind "0.": base-36 digits, nine
\* of them at most, and any value can come back on a later call
RandomSuffixes == {"4fzyo82mv", "k9"}

\* fiber.type?.name || fiber.type?.displayName || 'Unknown', fiber.key || '',
\* fiber.index || 0 of the fibers of one tree
FiberIdentities == [type : {"App", "Unknown"}, key : {"", "a"}, index : {0, 1}]

\* react-detector.ts:139-147  generateComponentId
generateComponentId(f, r) ==
  f.type \o "_" \o f.key \o "_" \o ToString(f.index) \o "_" \o r

\* part_002:1247  id: Math.random().toString(36).substr(2, 9)
clientComponentId(f, r) == r

\* react-detector.ts:54, part_002:1247  the id of the next component of the
\* extraction
AssignId ==
  /\ Len(ids) < Len(idFibers)
  /\ \E r \in RandomSuffixes :
       LET f == idFibers[Len(ids) + 1] IN
         ids' = Append(ids, IF idImpl = "detector" THEN generateComponentId(f, r)
                            ELSE clientComponentId(f, r))
  /\ UNCHANGED <<idImpl, idFibers>>
  /\ UNCHANGED <<walkVars, hookVars, resolveVars, chanVars, launchVars, detectVars, hostVars,
                 serveVars>>

IdsIdle ==
  /\ idImpl = "detector"
  /\ idFibers = <<>>
  /\ ids = <<>>

InitIdInputs ==
  /\ idImpl \in Walkers
  /\ idFibers \in UNION {[1..n -> FiberIdentities] : n \in 1..MaxNodes}
  /\ ids = <<>>

ServeIdle ==
  /\ frames = 0
  /\ handled = 0
  /\ pendingEditors = <<>>
  /\ slog = <<>>

ChannelQuiet ==
  /\ wss = FALSE
  /\ clients = {}
  /\ componentTree = NullTree
  /\ sstate = [s \in Sockets |-> "none"]
  /\ toServer = [s \in Sockets |-> <<>>]
  /\ toClient = [s \in Sockets |-> <<>>]
  /\ order = [c \in Clients |-> <<>>]
  /\ cur = [c \in Clients |-> 0]
  /\ cstate = [s \in Sockets |-> "unused"]
  /\ reconnectAttempts = [c \in Clients |-> 0]
  /\ retryTimer = [c \in Clients |-> FALSE]
  /\ retryDelay = [c \in Clients |-> 0]
  /\ devToolsUI = [c \in Clients |-> FALSE]
  /\ hookWraps = [c \in Clients |-> 0]
  /\ treeTimers = [c \in Clients |-> 0]
  /\ events = 0
  /\ received = [c \in Clients |-> -1]
  /\ applied = [c \in Clients |-> [stale |-> FALSE, sock |-> 0, count |-> 0]]
  /\ owed = [c \in Clients |-> FALSE]
  /\ errored = {}
  /\ retries = [c \in Clients |-> 0]

ChannelIdle == rev = "index" /\ ChannelQuiet /\ HostIdle /\ ServeIdle /\ IdsIdle

InitChannel ==
  /\ HostIdle
  /\ ServeIdle
  /\ IdsIdle
  /\ rev \in Revs
  /\ wss = FALSE
  /\ clients = {}
  /\ componentTree = NullTree
  /\ sstate = [s \in Sockets |-> "none"]
  /\ toServer = [s \in Sockets |-> <<>>]
  /\ toClient = [s \in Sockets |-> <<>>]
  /\ order = [c \in Clients |-> <<>>]
  /\ cur = [c \in Clients |-> 0]
  /\ cstate = [s \in Sockets |-> "unused"]
  /\ reconnectAttempts = [c \in Clients |-> 0]
  /\ retryTimer = [c \in Clients |-> FALSE]
  /\ retryDelay = [c \in Clients |-> 0]
  /\ devToolsUI = [c \in Clients |-> FALSE]
  /\ hookWraps = [c \in Clients |-> 0]
  /\ treeTimers = [c \in Clients |-> 0]
  /\ events = 0
  /\ received = [c \in Clients |-> -1]
  /\ applied = [c \in Clients |-> [stale |-> FALSE, sock |-> 0, count |-> 0]]
  /\ owed = [c \in Clients |-> FALSE]
  /\ errored = {}
  /\ retries = [c \in Clients |-> 0]

(***************************************************************************)
(* Specifications                                                          *)
(***************************************************************************)
Init == WalkIdle /\ HooksIdle /\ ResolveIdle /\ InitChannel /\ LaunchIdle /\ DetectIdle
Next ==
  \/ ConfigureServer
  \/ \E c \in Clients : Connect(c)
  \/ \E s \in Sockets : Accept(s)
  \/ \E s \in Sockets : OnOpen(s)
  \/ \E s \in Sockets : ClientClose(s)
  \/ \E s \in Sockets : ServerClose(s)
  \/ \E c \in Clients : InitializeUI(c)
  \/ \E c \in Clients : RequestComponentTree(c)
  \/ \E c \in Clients : TreeTimerFires(c)
  \/ \E c \in Clients : Commit(c)
  \/ \E s \in Sockets : ServerHandle(s)
  \/ \E s \in Sockets : ClientReceive(s)
Spec == Init /\ [][Next]_vars

InitWalk == InitWalkInputs /\ HooksIdle /\ ResolveIdle /\ ChannelIdle /\ LaunchIdle /\ DetectIdle
NextWalk == GetComponentTree \/ VisitChild \/ ReturnComponent \/ LoopForever
SpecWalk == InitWalk /\ [][NextWalk]_vars

InitHooks == WalkIdle /\ InitHookInputs /\ ResolveIdle /\ ChannelIdle /\ LaunchIdle /\ DetectIdle
NextHooks == ExtractHooks \/ DecodeHook \/ ReturnHooks \/ HookLoopForever
SpecHooks == InitHooks /\ [][NextHooks]_vars

\* the decoder on well-formed chains of hooks of every shape
InitHookKinds ==
  WalkIdle /\ InitHookShapes /\ ResolveIdle /\ ChannelIdle /\ LaunchIdle /\ DetectIdle
NextHookKinds == ExtractHooks \/ DecodeHook \/ ReturnHooks
SpecHookKinds == InitHookKinds /\ [][NextHookKinds]_vars

InitResolve == WalkIdle /\ HooksIdle /\ InitResolveInputs /\ ChannelIdle /\ LaunchIdle /\ DetectIdle
NextResolve == GetComponentSourceLocation \/ ResolveComponentFile
SpecResolve == InitResolve /\ [][NextResolve]_vars

\* the life of the connections alone, while the server may not listen yet:
\* attempts that are refused, accepted and opened, and connections that are
\* lost, with and without an error on the side of the server
NextRetry ==
  \/ ConfigureServer
  \/ \E c \in Clients : Connect(c)
  \/ \E s \in Sockets : ConnectRefused(s)
  \/ \E s \in Sockets : Accept(s)
  \/ \E s \in Sockets : OnOpen(s)
  \/ \E s \in Sockets : ClientClose(s)
  \/ \E s \in Sockets : ServerError(s)
  \/ \E s \in Sockets : ServerClose(s)
SpecRetry == Init /\ [][NextRetry]_vars

\* the server's message handler with the inspectors connected to it
InitServe == WalkIdle /\ HooksIdle /\ ResolveIdle /\ ChannelIdle /\ LaunchIdle /\ DetectIdle
NextServe ==
  \/ ConfigureServer
  \/ \E s \in Sockets : PeerConnect(s)
  \/ \E s \in Sockets, f \in InspectorFrames : PeerSend(s, f)
  \/ \E s \in Sockets : OnMessage(s)
  \/ EditorsDetected
  \/ \E s \in Sockets : PeerClose(s)
  \/ \E s \in Sockets : ServerClosing(s)
  \/ \E s \in Sockets : ServerClose(s)
SpecServe == InitServe /\ [][NextServe]_vars

\* the plugin's hooks in every configuration, with the page's connection
InitHost ==
  WalkIdle /\ HooksIdle /\ ResolveIdle /\ ChannelQuiet /\ InitHostInputs /\ ServeIdle
    /\ IdsIdle /\ LaunchIdle /\ DetectIdle
NextHost ==
  \/ ConfigResolved
  \/ ConfigureServer
  \/ TransformIndexHtml
  \/ RequestClientScript
  \/ BuildEnd
  \/ \E c \in Clients : Connect(c)
  \/ \E s \in Sockets : Accept(s)
  \/ \E s \in Sockets : OnOpen(s)
  \/ \E s \in Sockets : ServerHandle(s)
  \/ \E s \in Sockets : ClientDropped(s)
SpecHost == InitHost /\ [][NextHost]_vars

\* the ids of the components of one extraction
InitIds ==
  WalkIdle /\ HooksIdle /\ ResolveIdle /\ rev = "index" /\ ChannelQuiet /\ HostIdle
    /\ ServeIdle /\ InitIdInputs /\ LaunchIdle /\ DetectIdle
NextIds == AssignId
SpecIds == InitIds /\ [][NextIds]_vars

InitLaunch ==
  WalkIdle /\ HooksIdle /\ ChannelIdle /\ InitLaunchInputs /\ InitLaunchComponent /\ DetectIdle
NextLaunch == LaunchEditor \/ ProfileArgs \/ HandleOpenSource \/ ChildError \/ ChildExit
SpecLaunch == InitLaunch /\ [][NextLaunch]_vars

InitDetect == WalkIdle /\ HooksIdle /\ ResolveIdle /\ ChannelIdle /\ LaunchIdle /\ InitDetectInputs
NextDetect == DetectAvailableEditors \/ ProbeSettles
SpecDetect == InitDetect /\ [][NextDetect]_vars

(***************************************************************************)
(* Properties of the fiber walk                                            *)
(***************************************************************************)
Range(q) == {q[i] : i \in 1..Len(q)}

OutRaws == {out[i].raw : i \in 1..Len(out)}

\* the raw graph is a tree: no aliased node, no cycle
PlainTree == IsTree(child, sibling, size) /\ Acyclic

NoThrows == \A n \in 1..size : kind[n] # "throws"

\* the raw nodes below n: its child chain and everything under it
Subtree(n) == IF child[n] = Null THEN {} ELSE {child[n]} \cup Reach(child[n])

\* in a tree: the node whose child chain holds n (0 for the root)
RawParent(n) ==
  LET ps == {x \in 1..size : n \in Range(SiblingChain(child[x], {}))}
  IN IF ps = {} THEN 0 ELSE CHOOSE x \in ps : TRUE

RECURSIVE NearestMaterialized(_)
NearestMaterialized(n) ==
  LET p == RawParent(n)
  IN IF p = 0 THEN 0
     ELSE IF kind[p] # "marker" THEN p
     ELSE NearestMaterialized(p)

Finished == wstatus = "done" /\ aborted = "no"

\* C3: in a finished walk of a well-formed tree, an internal-marker node is
\* skipped but not pruned: it is not in the output, every component below it
\* is, attached to the nearest materialized ancestor, and so is every
\* component among the siblings that follow it
C3_SkippedNotPruned ==
  (Finished /\ PlainTree /\ NoThrows) =>
    \A m \in 1..size : kind[m] = "marker" =>
      /\ m \notin OutRaws
      /\ \A d \in Subtree(m) \cup Range(SiblingChain(sibling[m], {})) :
           kind[d] = "component" =>
             /\ d \in OutRaws
             /\ \A j \in 1..Len(out) : out[j].raw = d =>
                  IF NearestMaterialized(d) = 0 THEN out[j].parent = 0
                  ELSE /\ out[j].parent # 0
                       /\ out[out[j].parent].raw = NearestMaterialized(d)

\* C4: the walk always ends, no raw node is materialized twice, and no field
\* of a snapshot node leads back to the node
C4_AcyclicNoRevisit ==
  /\ wstatus # "diverged"
  /\ \A i, j \in 1..Len(out) : i # j => out[i].raw # out[j].raw
  /\ \A i \in 1..Len(out) : ~(HasParentField /\ out[i].parent # 0)

\* C5: on a raw graph without cycles the walk ends and creates at most as
\* many components as there are raw nodes
C5_CountBound ==
  Acyclic => /\ wstatus # "diverged"
             /\ Len(out) <= size

\* C6: no component lies deeper than the maximum depth, a walk that runs too
\* deep is truncated (not lost to a stack overflow), and the walk ends on
\* every graph, child or sibling cycles included
C6_DepthBounded ==
  /\ \A i \in 1..Len(out) : out[i].depth <= MaxDepth
  /\ aborted # "overflow"
  /\ wstatus # "diverged"

\* the fiberToComponent call that created out[i] has returned
Returned(i) == \A f \in 1..Len(stack) : stack[f].idx # i

\* the entries of the raw child chain of out[i] that yield a component
Yielding(i) ==
  SelectSeq(SiblingChain(child[out[i].raw], {}),
            LAMBDA c : Enter(c, out[i].depth + 1).tag = "mat")

\* C7: the children of every returned component are, in order, the
\* components of its raw child chain (first child, then next siblings); the
\* returned forest has the root's component as its only entry
C7_ChildOrder ==
  /\ \A i \in 1..Len(out) : Returned(i) =>
       LET kids == out[i].children
           want == Yielding(i)
       IN /\ Len(kids) = Len(want)
          /\ \A k \in 1..Len(kids) :
               /\ out[kids[k]].via = want[k]
               /\ out[kids[k]].raw = Enter(want[k], out[i].depth + 1).node
               /\ out[kids[k]].parent = i
  /\ Finished /\ out # <<>> => components = <<1>>

\* C7 witness: App with the raw children Counter then UserList
C7_Witness ==
  /\ Finished
  /\ size = 3 /\ child[1] = 2 /\ sibling[2] = 3
  /\ components = <<1>>
  /\ Len(out) = 3
  /\ out[1].children = <<2, 3>>
  /\ out[2].raw = 2 /\ out[3].raw = 3

\* C8: with one node whose read throws in an otherwise plain tree of
\* components, every node outside the bad node's subtree is in the returned
\* snapshot
C8_BadNodeIsolated ==
  (wstatus = "done" /\ PlainTree) =>
    \A b \in 1..size :
      (/\ kind[b] = "throws"
       /\ \A n \in 1..size : n # b => kind[n] = "component")
      => \A n \in 1..size : (n # b /\ n \notin Subtree(b)) => n \in OutRaws


(***************************************************************************)
(* Properties of the hook decoder                                          *)
(***************************************************************************)
\* C9: hook decoding ends and returns at most the maximum number of hook
\* records, whatever the chain, cyclic chains included
C9_HooksBounded ==
  /\ hstatus # "diverged"
  /\ Len(hooks) <= MaxHooks

(***************************************************************************)
(* Properties of the source resolver                                       *)
(***************************************************************************)
HasSource == component.source # NoSource

Stem == IF component.displayName # "" THEN component.displayName ELSE component.name

\* the (directory, pattern) positions whose candidate path exists
Hits ==
  {h \in (1..Len(srcDirs)) \X (1..Len(Patterns)) :
     Stem # "" /\ Join(projectRoot, srcDirs[h[1]], Stem, Patterns[h[2]]) \in fs}

\* directory first, then pattern
Before(g, h) == g[1] < h[1] \/ (g[1] = h[1] /\ g[2] < h[2])

\* C11: for a component without source metadata, resolveComponentFile
\* returns the existing candidate that comes first when the candidates are
\* taken directory by directory and, within a directory, pattern by pattern;
\* it returns null exactly when no candidate exists
C11_FirstExistingCandidate ==
  ("resolve" \in rdone /\ ~HasSource) =>
    IF Hits = {}
      THEN resolved = [file |-> NoPath]
      ELSE LET h == CHOOSE h \in Hits : \A g \in Hits : g = h \/ Before(h, g)
           IN resolved =
                [file |-> Join(projectRoot, srcDirs[h[1]], Stem, Patterns[h[2]])]

\* C11 witness: UserCard exists as app/UserCard.jsx and as src/UserCard.tsx,
\* the directories are searched app first: the .jsx file of app is returned
\* although .tsx is the earlier pattern
C11_Witness ==
  /\ "resolve" \in rdone /\ ~HasSource
  /\ Stem = "UserCard" /\ projectRoot = "/proj" /\ srcDirs = <<"app", "src">>
  /\ Join("/proj", "src", "UserCard", ".tsx") \in fs
  /\ Join("/proj", "app", "UserCard", ".jsx") \in fs
  /\ resolved = [file |-> Join("/proj", "app", "UserCard", ".jsx")]

\* C11 witness of the null result: a name, and no candidate in the file system
C11_WitnessNull ==
  /\ "resolve" \in rdone /\ ~HasSource
  /\ Stem = "UserCard" /\ Hits = {}
  /\ resolved = [file |-> NoPath]

(***************************************************************************)
(* Properties of the channel                                               *)
(***************************************************************************)
\* nothing is in flight on the page's open connection and no timer of the
\* page is pending: the program has no step left to take for this page
Quiescent(c) ==
  /\ WsOpen(c)
  /\ sstate[Ws(c)] = "open"
  /\ toServer[Ws(c)] = <<>>
  /\ toClient[Ws(c)] = <<>>
  /\ treeTimers[c] = 0

\* C1: when the host has committed while the page's connection was open and
\* the connection has stayed open until nothing is left in flight, the page
\* has received a COMPONENT_TREE message whose payload is a snapshot, and the
\* server's stored component tree is not empty
C1_SnapshotDelivered ==
  \A c \in Clients :
    (owed[c] /\ Quiescent(c)) =>
      /\ received[c] \notin {-1, NullTree}
      /\ componentTree # NullTree

\* C2: a page never applies a COMPONENT_TREE message that the server
\* generated before the one the page applied last
C2_Monotonic == \A c \in Clients : ~applied[c].stale

\* the page applied a snapshot, lost its connection, reconnected and applied
\* a snapshot that arrived on the new connection
C2_Witness ==
  \E c \in Clients :
    /\ applied[c].count >= 2
    /\ applied[c].sock >= 2
    /\ cstate[<<c, 1>>] = "closed"

(***************************************************************************)
(* Properties of the editor launcher                                       *)
(***************************************************************************)
LaunchReturned == call.via = "launchEditor" /\ lstatus = "returned"

\* no spawn call was made and no process exists
NothingSpawned == spawnCalls = <<>> /\ proc = NoChild

\* C12: launchEditor on a file that does not exist, once the path is
\* resolved against projectRoot, returns false, throws nothing and spawns
\* no process
C12_MissingFileFails ==
  (LaunchReturned /\ Resolve(call.root, call.file) \notin lfs) =>
    /\ launched = "false"
    /\ NothingSpawned
    /\ ~crashed

\* C12 witness: main.ts exists in the working directory but not under the
\* project root it is resolved against
C12_Witness ==
  /\ LaunchReturned
  /\ call.editor = "code" /\ call.file = "main.ts" /\ call.root = "/proj"
  /\ lfs = {"/cwd/main.ts"}
  /\ launched = "false" /\ logs = <<"File not found">>

FileOnly == call.line = Undefined /\ call.column = Undefined
WithLine == call.line > 0 /\ call.column = Undefined
WithLineColumn == call.line > 0 /\ call.column > 0

\* the location token of the grammar for the file f in the call's shape
Token(f, columnToo) ==
  IF FileOnly THEN f
  ELSE IF WithLine \/ ~columnToo THEN f \o ":" \o ToString(call.line)
  ELSE f \o ":" \o ToString(call.line) \o ":" \o ToString(call.column)

\* the argument list the grammar of the call's editor asks for
Grammar(f) ==
  CASE call.editor \in {"code", "code-insiders"} -> <<"--goto", Token(f, TRUE)>>
    [] call.editor \in {"sublime", "atom"} -> <<Token(f, TRUE)>>
    [] call.editor \in {"webstorm", "idea"} -> <<"--line", Token(f, FALSE)>>
    [] call.editor \in {"vim", "emacs"} ->
         IF FileOnly THEN <<f>> ELSE <<"+" \o ToString(call.line), f>>

C14_WitnessSpawn ==
  /\ LaunchReturned
  /\ call.editor = "idea" /\ call.file = "main.ts" /\ call.root = "/proj" /\ call.line = 10
  /\ spawnCalls = <<[command |-> "idea", args |-> <<"--line", "/proj/main.ts:10">>,
                     detached |-> TRUE]>>

\* C15: launchEditor returns true exactly when the editor process was
\* started, and a spawn that fails does not end the host process
C15_SuccessIffSpawned ==
  LaunchReturned =>
    /\ launched = "true" <=> proc.mode = "starts"
    /\ ~crashed

\* C16: when handleOpenSource has handled an OPEN_SOURCE request, the
\* outcome has been sent to the inspector that asked
C16_OutcomeReported ==
  (call.via = "OPEN_SOURCE" /\ lstatus = "returned") => replies # <<>>

C18_ProbesConcurrent ==
  dstatus = "probing" => Len(probed) = Len(EditorOrder)

(***************************************************************************)
(* Properties of the connection registry and of the page's retries         *)
(***************************************************************************)
\* C19: the registry of the server holds exactly the connections that were
\* accepted and have since neither closed nor reported an error; a connection
\* that reported an error is out of the registry, and the close that follows
\* the error finds nothing left to remove
C19_RegistryTracksConnections ==
  /\ clients = {s \in Sockets : sstate[s] = "open"}
  /\ \A s \in errored : sstate[s] \in {"errored", "closed"} /\ s \notin clients

\* C19 witness: a connection reported an error and then closed, and the
\* connection the page made afterwards is the one in the registry
C19_Witness ==
  \E s \in errored, t \in clients :
    /\ sstate[s] = "closed"
    /\ t[1] = s[1] /\ t[2] > s[2]

\* the page has stopped: its last socket is closed and no retry is scheduled
GaveUp(c) == cur[c] > 0 /\ cstate[Ws(c)] = "closed" /\ ~retryTimer[c]

\* C20: the timer of the k-th retry in a row is set to k seconds by the close
\* before it, a page makes at most maxReconnectAttempts retries in a row, a
\* page is left without connection and without timer only once it has made
\* them all, and from then on it stays without connection and without timer
C20_RetriesBounded ==
  /\ [](\A c \in Clients :
          /\ retries[c] <= maxReconnectAttempts
          /\ retryTimer[c] =>
               /\ retries[c] < maxReconnectAttempts
               /\ reconnectAttempts[c] = retries[c] + 1
               /\ retryDelay[c] = 1000 * (retries[c] + 1)
          /\ GaveUp(c) => retries[c] = maxReconnectAttempts)
  /\ [][\A c \in Clients : GaveUp(c) => GaveUp(c)']_vars

\* C20 witness: five retries in a row were refused, the last one was
\* scheduled five seconds after the close before it, and the page has stopped
C20_Witness ==
  \E c \in Clients :
    /\ GaveUp(c)
    /\ retries[c] = maxReconnectAttempts
    /\ cur[c] = maxReconnectAttempts + 1
    /\ retryDelay[c] = 5000

(***************************************************************************)
(* Properties of the server's message handler                              *)
(***************************************************************************)
\* the step handles the frame at the head of the queue of connection s
Handles(s) ==
  /\ handled' = handled + 1
  /\ toServer[s] # <<>>
  /\ toServer'[s] = Tail(toServer[s])

\* the step sends exactly the message m to exactly the connections in to
SendsTo(to, m) ==
  \A t \in Sockets :
    toClient'[t] = IF t \in to THEN Append(toClient[t], m) ELSE toClient[t]

\* C21: the reply to GET_COMPONENT_TREE is one COMPONENT_TREE to the
\* connection that asked and nothing to any other; the reply to
\* GET_AVAILABLE_EDITORS is one AVAILABLE_EDITORS to the connection that
\* asked, once detection is over, and nothing to any other; SELECT_COMPONENT
\* makes one COMPONENT_SELECTED with the same component id for every
\* connection that is registered and open, and none for any other
C21_UnicastAndBroadcast ==
  [][/\ \A s \in Peers :
          Handles(s) =>
            LET m == Head(toServer[s]) IN
              /\ m.type = "GET_COMPONENT_TREE" => SendsTo({s}, TreeMsg(TreeReply))
              /\ m.type = "SELECT_COMPONENT" =>
                   SendsTo({t \in clients : sstate[t] = "open"}, SelectedMsg(m.data))
              /\ m.type = "GET_AVAILABLE_EDITORS" =>
                   /\ SendsTo({}, m)
                   /\ pendingEditors' = Append(pendingEditors, s)
     /\ pendingEditors' # pendingEditors /\ Len(pendingEditors') < Len(pendingEditors) =>
          SendsTo({Head(pendingEditors)} \cap {t \in Sockets : sstate[t] = "open"},
                  Msg("AVAILABLE_EDITORS"))
    ]_vars

\* C21 witness: of two open inspectors one has asked for the tree and one has
\* selected component 2: the first holds its COMPONENT_TREE and the
\* COMPONENT_SELECTED, the second the COMPONENT_SELECTED alone
C21_Witness ==
  \E s, t \in Peers :
    /\ s # t
    /\ sstate[s] = "open" /\ sstate[t] = "open"
    /\ toClient[s] = <<TreeMsg(NullTree), SelectedMsg(2)>>
    /\ toClient[t] = <<SelectedMsg(2)>>

\* C22: a frame that is not JSON, the JSON text null and a JSON value without
\* type are logged and dropped: the connection that sent the frame stays open
\* and registered, nothing is sent to any connection, and the frames behind
\* it stay in the queue for the handler
C22_MalformedDropped ==
  [][\A s \in Peers :
       (Handles(s) /\ Head(toServer[s]) \in Malformed) =>
         /\ Len(slog') = Len(slog) + 1
         /\ sstate' = sstate
         /\ clients' = clients
         /\ s \in clients
         /\ toClient' = toClient
         /\ pendingEditors' = pendingEditors
    ]_vars

\* C22 witness: a connection sent a frame that is not JSON and then asked for
\* the tree: the first is logged, the second is answered, and the connection
\* is open and registered
C22_Witness ==
  \E s \in Peers :
    /\ slog = <<"Failed to parse DevTools message:">>
    /\ toClient[s] = <<TreeMsg(NullTree)>>
    /\ toServer[s] = <<>>
    /\ sstate[s] = "open" /\ s \in clients
    /\ frames = MaxFrames

(***************************************************************************)
(* Properties of the plugin's hooks                                        *)
(***************************************************************************)
\* the resolved configuration is a production one
ProductionConfig == command = "build" \/ configMode = "production"

\* C23: once buildEnd has run, nothing made by the plugin holds the port, the
\* registry is empty and no connection is open on the side of the server
C23_TeardownReleases ==
  lastHook = "buildEnd" =>
    /\ ~listening
    /\ clients = {}
    /\ \A s \in Sockets : sstate[s] # "open"

\* C24: in a production configuration without enableInProduction no server
\* is started, no document gets the script tags and the client script is not
\* handed out; with enableInProduction the server runs once configureServer
\* has, its route is installed, and a document with a <head> gets the tags
C24_DisabledInProduction ==
  /\ (ProductionConfig /\ ~enableInProduction) =>
       /\ ~wss /\ ~listening
       /\ ~html.injected
       /\ served # "script"
  /\ (ProductionConfig /\ enableInProduction /\ lastHook # "none") =>
       /\ (lastHook = "configureServer" /\ ~ended) => (wss /\ listening /\ upgrades /\ middleware)
       /\ html.doc = "head" => html.injected

\* C29: when configureServer has run after buildEnd in a configuration that
\* does not disable the plugin, a server made by the plugin listens and takes
\* WebSocket connections
C29_ListensAgain ==
  (ended /\ lastHook = "configureServer" /\ ~(ProductionConfig /\ ~enableInProduction)) =>
    (listening /\ upgrades)

(***************************************************************************)
(* Properties of custom editors and of the paths handed to the editor       *)
(***************************************************************************)
\* a command name of the user's own: no key of the registry, own or inherited
CustomEditor(editor) == editor \notin EditorKeys \cup InheritedKeys /\ editor # ""

\* C25: launchEditor with a command name of the user's own, on a file that
\* exists, spawns that command with the one argument file:line:column
C25_CustomEditorSpawns ==
  (LaunchReturned /\ CustomEditor(call.editor) /\ Resolve(call.root, call.file) \in lfs) =>
    /\ Len(spawnCalls) = 1
    /\ spawnCalls[1].command = call.editor
    /\ spawnCalls[1].args =
         <<FileLineColumn(Resolve(call.root, call.file), call.line, call.column)>>

\* the string names a path below the directory root
Under(root, path) ==
  /\ Len(path) > Len(root) + 1
  /\ SubSeq(path, 1, Len(root) + 1) = root \o "/"

\* C30: every editor process an OPEN_SOURCE request starts is given a path
\* below projectRoot
C30_SpawnStaysUnderRoot ==
  call.via = "OPEN_SOURCE" =>
    \A i \in 1..Len(spawnCalls) :
      \E k \in 1..Len(spawnCalls[i].args) : Under(call.root, spawnCalls[i].args[k])

(***************************************************************************)
(* Properties of the component ids                                         *)
(***************************************************************************)
\* C26: the ids given in one extraction are pairwise distinct
C26_IdsDistinct ==
  \A i, j \in 1..Len(ids) : i # j => ids[i] # ids[j]

(***************************************************************************)
(* Properties of the kinds of hooks                                        *)
(***************************************************************************)
\* the kind the shape of a raw hook node stands for: stateful with an update
\* queue, effect-like with a dependency list and no queue, custom otherwise
KindOfShape(shape) ==
  IF shape.queue THEN "useState"
  ELSE IF shape.deps THEN "useEffect"
  ELSE "custom"

\* C27: every decoded hook record carries the kind its raw node's shape
\* stands for; a node with both update queue and dependency list is stateful
C27_KindFromShape ==
  \A k \in 1..Len(hooks) : hooks[k].type = KindOfShape(hookShape[hooks[k].node])

(***************************************************************************)
(* Properties of the commit hook                                           *)
(***************************************************************************)
\* C28: however often the page's connection is lost and made again, at most
\* one wrapper of the client script sits on hook.onCommitFiberRoot, so that
\* one commit of the host causes at most one notification or tree request
C28_CommitHookOnce == \A c \in Clients : hookWraps[c] <= 1

====
